---------------------------- MODULE Spec2Model ----------------------------
(***************************************************************************)
(* State-machine model of the panorama-cms/logger package.                 *)
(*                                                                         *)
(* The engine (LevelWeights, SetMinimumLogLevel, l, Log, the level         *)
(* wrappers and their asynchronous variants) is the logger.go carried by   *)
(* src/unnamed/part_000.  LogRequest exists in two builds of the package:  *)
(* src/unnamed/part_002 (geo fields, header written when the day's file is *)
(* absent) and src/request.go (no geo fields, no header); the variable     *)
(* build says which one is linked.                                         *)
(*                                                                         *)
(* Strings are sequences of one-character strings, so that upper-casing,   *)
(* comma replacement and concatenation are computed, not assumed.          *)
(* Files are sequences of characters.  The wall clock is an input: every   *)
(* call of time.Now() returns any of the readings.  The file system fails  *)
(* os.Stat, os.Mkdir, os.Create and os.OpenFile only for a directory that  *)
(* is missing or, for os.Mkdir, present; a write to an open file and the   *)
(* closing of one can fail at any time.                                    *)
(***************************************************************************)
EXTENDS Integers, Sequences, FiniteSets, TLC

(* ------------------------------ bounds -------------------------------- *)

\* goroutines of the host that may be inside the package at the same time
NTasks == 2

\* calls the host makes in one behaviour
MaxCalls == 2

\* how many instants the wall clock can be read at
MaxTime == 2

\* last calendar day
MaxDay == 2

\* the length of a long user agent
LongAgent == 200

\* the depth down to which the recursion of SetMinimumLogLevel is followed
MaxDepth == 3

Tasks == 1..NTasks

Days == 1..MaxDay

(* ------------------------------ strings ------------------------------- *)

LowerLetters ==
  <<"a","b","c","d","e","f","g","h","i","j","k","l","m",
    "n","o","p","q","r","s","t","u","v","w","x","y","z">>

UpperLetters ==
  <<"A","B","C","D","E","F","G","H","I","J","K","L","M",
    "N","O","P","Q","R","S","T","U","V","W","X","Y","Z">>

DigitChars == <<"0","1","2","3","4","5","6","7","8","9">>

\* runes outside ASCII are written by their code point
DotlessI == "U+0131"
LongS == "U+017F"

\* unicode.ToUpper outside ASCII: every rune whose upper case is another
\* rune, with that rune (the case tables of Unicode 13.0.0, which the
\* unicode package carries); U+0131 and U+017F map into ASCII
UpperPairs ==
  { <<"U+00B5","U+039C">>, <<"U+00E0","U+00C0">>, <<"U+00E1","U+00C1">>,
    <<"U+00E2","U+00C2">>, <<"U+00E3","U+00C3">>, <<"U+00E4","U+00C4">>,
    <<"U+00E5","U+00C5">>, <<"U+00E6","U+00C6">>, <<"U+00E7","U+00C7">>,
    <<"U+00E8","U+00C8">>, <<"U+00E9","U+00C9">>, <<"U+00EA","U+00CA">>,
    <<"U+00EB","U+00CB">>, <<"U+00EC","U+00CC">>, <<"U+00ED","U+00CD">>,
    <<"U+00EE","U+00CE">>, <<"U+00EF","U+00CF">>, <<"U+00F0","U+00D0">>,
    <<"U+00F1","U+00D1">>, <<"U+00F2","U+00D2">>, <<"U+00F3","U+00D3">>,
    <<"U+00F4","U+00D4">>, <<"U+00F5","U+00D5">>, <<"U+00F6","U+00D6">>,
    <<"U+00F8","U+00D8">>, <<"U+00F9","U+00D9">>, <<"U+00FA","U+00DA">>,
    <<"U+00FB","U+00DB">>, <<"U+00FC","U+00DC">>, <<"U+00FD","U+00DD">>,
    <<"U+00FE","U+00DE">>, <<"U+00FF","U+0178">>, <<"U+0101","U+0100">>,
    <<"U+0103","U+0102">>, <<"U+0105","U+0104">>, <<"U+0107","U+0106">>,
    <<"U+0109","U+0108">>, <<"U+010B","U+010A">>, <<"U+010D","U+010C">>,
    <<"U+010F","U+010E">>, <<"U+0111","U+0110">>, <<"U+0113","U+0112">>,
    <<"U+0115","U+0114">>, <<"U+0117","U+0116">>, <<"U+0119","U+0118">>,
    <<"U+011B","U+011A">>, <<"U+011D","U+011C">>, <<"U+011F","U+011E">>,
    <<"U+0121","U+0120">>, <<"U+0123","U+0122">>, <<"U+0125","U+0124">>,
    <<"U+0127","U+0126">>, <<"U+0129","U+0128">>, <<"U+012B","U+012A">>,
    <<"U+012D","U+012C">>, <<"U+012F","U+012E">>, <<"U+0131","I">>,
    <<"U+0133","U+0132">>, <<"U+0135","U+0134">>, <<"U+0137","U+0136">>,
    <<"U+013A","U+0139">>, <<"U+013C","U+013B">>, <<"U+013E","U+013D">>,
    <<"U+0140","U+013F">>, <<"U+0142","U+0141">>, <<"U+0144","U+0143">>,
    <<"U+0146","U+0145">>, <<"U+0148","U+0147">>, <<"U+014B","U+014A">>,
    <<"U+014D","U+014C">>, <<"U+014F","U+014E">>, <<"U+0151","U+0150">>,
    <<"U+0153","U+0152">>, <<"U+0155","U+0154">>, <<"U+0157","U+0156">>,
    <<"U+0159","U+0158">>, <<"U+015B","U+015A">>, <<"U+015D","U+015C">>,
    <<"U+015F","U+015E">>, <<"U+0161","U+0160">>, <<"U+0163","U+0162">>,
    <<"U+0165","U+0164">>, <<"U+0167","U+0166">>, <<"U+0169","U+0168">>,
    <<"U+016B","U+016A">>, <<"U+016D","U+016C">>, <<"U+016F","U+016E">>,
    <<"U+0171","U+0170">>, <<"U+0173","U+0172">>, <<"U+0175","U+0174">>,
    <<"U+0177","U+0176">>, <<"U+017A","U+0179">>, <<"U+017C","U+017B">>,
    <<"U+017E","U+017D">>, <<"U+017F","S">>, <<"U+0180","U+0243">>,
    <<"U+0183","U+0182">>, <<"U+0185","U+0184">>, <<"U+0188","U+0187">>,
    <<"U+018C","U+018B">>, <<"U+0192","U+0191">>, <<"U+0195","U+01F6">>,
    <<"U+0199","U+0198">>, <<"U+019A","U+023D">>, <<"U+019E","U+0220">>,
    <<"U+01A1","U+01A0">>, <<"U+01A3","U+01A2">>, <<"U+01A5","U+01A4">>,
    <<"U+01A8","U+01A7">>, <<"U+01AD","U+01AC">>, <<"U+01B0","U+01AF">>,
    <<"U+01B4","U+01B3">>, <<"U+01B6","U+01B5">>, <<"U+01B9","U+01B8">>,
    <<"U+01BD","U+01BC">>, <<"U+01BF","U+01F7">>, <<"U+01C5","U+01C4">>,
    <<"U+01C6","U+01C4">>, <<"U+01C8","U+01C7">>, <<"U+01C9","U+01C7">>,
    <<"U+01CB","U+01CA">>, <<"U+01CC","U+01CA">>, <<"U+01CE","U+01CD">>,
    <<"U+01D0","U+01CF">>, <<"U+01D2","U+01D1">>, <<"U+01D4","U+01D3">>,
    <<"U+01D6","U+01D5">>, <<"U+01D8","U+01D7">>, <<"U+01DA","U+01D9">>,
    <<"U+01DC","U+01DB">>, <<"U+01DD","U+018E">>, <<"U+01DF","U+01DE">>,
    <<"U+01E1","U+01E0">>, <<"U+01E3","U+01E2">>, <<"U+01E5","U+01E4">>,
    <<"U+01E7","U+01E6">>, <<"U+01E9","U+01E8">>, <<"U+01EB","U+01EA">>,
    <<"U+01ED","U+01EC">>, <<"U+01EF","U+01EE">>, <<"U+01F2","U+01F1">>,
    <<"U+01F3","U+01F1">>, <<"U+01F5","U+01F4">>, <<"U+01F9","U+01F8">>,
    <<"U+01FB","U+01FA">>, <<"U+01FD","U+01FC">>, <<"U+01FF","U+01FE">>,
    <<"U+0201","U+0200">>, <<"U+0203","U+0202">>, <<"U+0205","U+0204">>,
    <<"U+0207","U+0206">>, <<"U+0209","U+0208">>, <<"U+020B","U+020A">>,
    <<"U+020D","U+020C">>, <<"U+020F","U+020E">>, <<"U+0211","U+0210">>,
    <<"U+0213","U+0212">>, <<"U+0215","U+0214">>, <<"U+0217","U+0216">>,
    <<"U+0219","U+0218">>, <<"U+021B","U+021A">>, <<"U+021D","U+021C">>,
    <<"U+021F","U+021E">>, <<"U+0223","U+0222">>, <<"U+0225","U+0224">>,
    <<"U+0227","U+0226">>, <<"U+0229","U+0228">>, <<"U+022B","U+022A">>,
    <<"U+022D","U+022C">>, <<"U+022F","U+022E">>, <<"U+0231","U+0230">>,
    <<"U+0233","U+0232">>, <<"U+023C","U+023B">>, <<"U+023F","U+2C7E">>,
    <<"U+0240","U+2C7F">>, <<"U+0242","U+0241">>, <<"U+0247","U+0246">>,
    <<"U+0249","U+0248">>, <<"U+024B","U+024A">>, <<"U+024D","U+024C">>,
    <<"U+024F","U+024E">>, <<"U+0250","U+2C6F">>, <<"U+0251","U+2C6D">>,
    <<"U+0252","U+2C70">>, <<"U+0253","U+0181">>, <<"U+0254","U+0186">>,
    <<"U+0256","U+0189">>, <<"U+0257","U+018A">>, <<"U+0259","U+018F">>,
    <<"U+025B","U+0190">>, <<"U+025C","U+A7AB">>, <<"U+0260","U+0193">>,
    <<"U+0261","U+A7AC">>, <<"U+0263","U+0194">>, <<"U+0265","U+A78D">>,
    <<"U+0266","U+A7AA">>, <<"U+0268","U+0197">>, <<"U+0269","U+0196">>,
    <<"U+026A","U+A7AE">>, <<"U+026B","U+2C62">>, <<"U+026C","U+A7AD">>,
    <<"U+026F","U+019C">>, <<"U+0271","U+2C6E">>, <<"U+0272","U+019D">>,
    <<"U+0275","U+019F">>, <<"U+027D","U+2C64">>, <<"U+0280","U+01A6">>,
    <<"U+0282","U+A7C5">>, <<"U+0283","U+01A9">>, <<"U+0287","U+A7B1">>,
    <<"U+0288","U+01AE">>, <<"U+0289","U+0244">>, <<"U+028A","U+01B1">>,
    <<"U+028B","U+01B2">>, <<"U+028C","U+0245">>, <<"U+0292","U+01B7">>,
    <<"U+029D","U+A7B2">>, <<"U+029E","U+A7B0">>, <<"U+0345","U+0399">>,
    <<"U+0371","U+0370">>, <<"U+0373","U+0372">>, <<"U+0377","U+0376">>,
    <<"U+037B","U+03FD">>, <<"U+037C","U+03FE">>, <<"U+037D","U+03FF">>,
    <<"U+03AC","U+0386">>, <<"U+03AD","U+0388">>, <<"U+03AE","U+0389">>,
    <<"U+03AF","U+038A">>, <<"U+03B1","U+0391">>, <<"U+03B2","U+0392">>,
    <<"U+03B3","U+0393">>, <<"U+03B4","U+0394">>, <<"U+03B5","U+0395">>,
    <<"U+03B6","U+0396">>, <<"U+03B7","U+0397">>, <<"U+03B8","U+0398">>,
    <<"U+03B9","U+0399">>, <<"U+03BA","U+039A">>, <<"U+03BB","U+039B">>,
    <<"U+03BC","U+039C">>, <<"U+03BD","U+039D">>, <<"U+03BE","U+039E">>,
    <<"U+03BF","U+039F">>, <<"U+03C0","U+03A0">>, <<"U+03C1","U+03A1">>,
    <<"U+03C2","U+03A3">>, <<"U+03C3","U+03A3">>, <<"U+03C4","U+03A4">>,
    <<"U+03C5","U+03A5">>, <<"U+03C6","U+03A6">>, <<"U+03C7","U+03A7">>,
    <<"U+03C8","U+03A8">>, <<"U+03C9","U+03A9">>, <<"U+03CA","U+03AA">>,
    <<"U+03CB","U+03AB">>, <<"U+03CC","U+038C">>, <<"U+03CD","U+038E">>,
    <<"U+03CE","U+038F">>, <<"U+03D0","U+0392">>, <<"U+03D1","U+0398">>,
    <<"U+03D5","U+03A6">>, <<"U+03D6","U+03A0">>, <<"U+03D7","U+03CF">>,
    <<"U+03D9","U+03D8">>, <<"U+03DB","U+03DA">>, <<"U+03DD","U+03DC">>,
    <<"U+03DF","U+03DE">>, <<"U+03E1","U+03E0">>, <<"U+03E3","U+03E2">>,
    <<"U+03E5","U+03E4">>, <<"U+03E7","U+03E6">>, <<"U+03E9","U+03E8">>,
    <<"U+03EB","U+03EA">>, <<"U+03ED","U+03EC">>, <<"U+03EF","U+03EE">>,
    <<"U+03F0","U+039A">>, <<"U+03F1","U+03A1">>, <<"U+03F2","U+03F9">>,
    <<"U+03F3","U+037F">>, <<"U+03F5","U+0395">>, <<"U+03F8","U+03F7">>,
    <<"U+03FB","U+03FA">>, <<"U+0430","U+0410">>, <<"U+0431","U+0411">>,
    <<"U+0432","U+0412">>, <<"U+0433","U+0413">>, <<"U+0434","U+0414">>,
    <<"U+0435","U+0415">>, <<"U+0436","U+0416">>, <<"U+0437","U+0417">>,
    <<"U+0438","U+0418">>, <<"U+0439","U+0419">>, <<"U+043A","U+041A">>,
    <<"U+043B","U+041B">>, <<"U+043C","U+041C">>, <<"U+043D","U+041D">>,
    <<"U+043E","U+041E">>, <<"U+043F","U+041F">>, <<"U+0440","U+0420">>,
    <<"U+0441","U+0421">>, <<"U+0442","U+0422">>, <<"U+0443","U+0423">>,
    <<"U+0444","U+0424">>, <<"U+0445","U+0425">>, <<"U+0446","U+0426">>,
    <<"U+0447","U+0427">>, <<"U+0448","U+0428">>, <<"U+0449","U+0429">>,
    <<"U+044A","U+042A">>, <<"U+044B","U+042B">>, <<"U+044C","U+042C">>,
    <<"U+044D","U+042D">>, <<"U+044E","U+042E">>, <<"U+044F","U+042F">>,
    <<"U+0450","U+0400">>, <<"U+0451","U+0401">>, <<"U+0452","U+0402">>,
    <<"U+0453","U+0403">>, <<"U+0454","U+0404">>, <<"U+0455","U+0405">>,
    <<"U+0456","U+0406">>, <<"U+0457","U+0407">>, <<"U+0458","U+0408">>,
    <<"U+0459","U+0409">>, <<"U+045A","U+040A">>, <<"U+045B","U+040B">>,
    <<"U+045C","U+040C">>, <<"U+045D","U+040D">>, <<"U+045E","U+040E">>,
    <<"U+045F","U+040F">>, <<"U+0461","U+0460">>, <<"U+0463","U+0462">>,
    <<"U+0465","U+0464">>, <<"U+0467","U+0466">>, <<"U+0469","U+0468">>,
    <<"U+046B","U+046A">>, <<"U+046D","U+046C">>, <<"U+046F","U+046E">>,
    <<"U+0471","U+0470">>, <<"U+0473","U+0472">>, <<"U+0475","U+0474">>,
    <<"U+0477","U+0476">>, <<"U+0479","U+0478">>, <<"U+047B","U+047A">>,
    <<"U+047D","U+047C">>, <<"U+047F","U+047E">>, <<"U+0481","U+0480">>,
    <<"U+048B","U+048A">>, <<"U+048D","U+048C">>, <<"U+048F","U+048E">>,
    <<"U+0491","U+0490">>, <<"U+0493","U+0492">>, <<"U+0495","U+0494">>,
    <<"U+0497","U+0496">>, <<"U+0499","U+0498">>, <<"U+049B","U+049A">>,
    <<"U+049D","U+049C">>, <<"U+049F","U+049E">>, <<"U+04A1","U+04A0">>,
    <<"U+04A3","U+04A2">>, <<"U+04A5","U+04A4">>, <<"U+04A7","U+04A6">>,
    <<"U+04A9","U+04A8">>, <<"U+04AB","U+04AA">>, <<"U+04AD","U+04AC">>,
    <<"U+04AF","U+04AE">>, <<"U+04B1","U+04B0">>, <<"U+04B3","U+04B2">>,
    <<"U+04B5","U+04B4">>, <<"U+04B7","U+04B6">>, <<"U+04B9","U+04B8">>,
    <<"U+04BB","U+04BA">>, <<"U+04BD","U+04BC">>, <<"U+04BF","U+04BE">>,
    <<"U+04C2","U+04C1">>, <<"U+04C4","U+04C3">>, <<"U+04C6","U+04C5">>,
    <<"U+04C8","U+04C7">>, <<"U+04CA","U+04C9">>, <<"U+04CC","U+04CB">>,
    <<"U+04CE","U+04CD">>, <<"U+04CF","U+04C0">>, <<"U+04D1","U+04D0">>,
    <<"U+04D3","U+04D2">>, <<"U+04D5","U+04D4">>, <<"U+04D7","U+04D6">>,
    <<"U+04D9","U+04D8">>, <<"U+04DB","U+04DA">>, <<"U+04DD","U+04DC">>,
    <<"U+04DF","U+04DE">>, <<"U+04E1","U+04E0">>, <<"U+04E3","U+04E2">>,
    <<"U+04E5","U+04E4">>, <<"U+04E7","U+04E6">>, <<"U+04E9","U+04E8">>,
    <<"U+04EB","U+04EA">>, <<"U+04ED","U+04EC">>, <<"U+04EF","U+04EE">>,
    <<"U+04F1","U+04F0">>, <<"U+04F3","U+04F2">>, <<"U+04F5","U+04F4">>,
    <<"U+04F7","U+04F6">>, <<"U+04F9","U+04F8">>, <<"U+04FB","U+04FA">>,
    <<"U+04FD","U+04FC">>, <<"U+04FF","U+04FE">>, <<"U+0501","U+0500">>,
    <<"U+0503","U+0502">>, <<"U+0505","U+0504">>, <<"U+0507","U+0506">>,
    <<"U+0509","U+0508">>, <<"U+050B","U+050A">>, <<"U+050D","U+050C">>,
    <<"U+050F","U+050E">>, <<"U+0511","U+0510">>, <<"U+0513","U+0512">>,
    <<"U+0515","U+0514">>, <<"U+0517","U+0516">>, <<"U+0519","U+0518">>,
    <<"U+051B","U+051A">>, <<"U+051D","U+051C">>, <<"U+051F","U+051E">>,
    <<"U+0521","U+0520">>, <<"U+0523","U+0522">>, <<"U+0525","U+0524">>,
    <<"U+0527","U+0526">>, <<"U+0529","U+0528">>, <<"U+052B","U+052A">>,
    <<"U+052D","U+052C">>, <<"U+052F","U+052E">>, <<"U+0561","U+0531">>,
    <<"U+0562","U+0532">>, <<"U+0563","U+0533">>, <<"U+0564","U+0534">>,
    <<"U+0565","U+0535">>, <<"U+0566","U+0536">>, <<"U+0567","U+0537">>,
    <<"U+0568","U+0538">>, <<"U+0569","U+0539">>, <<"U+056A","U+053A">>,
    <<"U+056B","U+053B">>, <<"U+056C","U+053C">>, <<"U+056D","U+053D">>,
    <<"U+056E","U+053E">>, <<"U+056F","U+053F">>, <<"U+0570","U+0540">>,
    <<"U+0571","U+0541">>, <<"U+0572","U+0542">>, <<"U+0573","U+0543">>,
    <<"U+0574","U+0544">>, <<"U+0575","U+0545">>, <<"U+0576","U+0546">>,
    <<"U+0577","U+0547">>, <<"U+0578","U+0548">>, <<"U+0579","U+0549">>,
    <<"U+057A","U+054A">>, <<"U+057B","U+054B">>, <<"U+057C","U+054C">>,
    <<"U+057D","U+054D">>, <<"U+057E","U+054E">>, <<"U+057F","U+054F">>,
    <<"U+0580","U+0550">>, <<"U+0581","U+0551">>, <<"U+0582","U+0552">>,
    <<"U+0583","U+0553">>, <<"U+0584","U+0554">>, <<"U+0585","U+0555">>,
    <<"U+0586","U+0556">>, <<"U+10D0","U+1C90">>, <<"U+10D1","U+1C91">>,
    <<"U+10D2","U+1C92">>, <<"U+10D3","U+1C93">>, <<"U+10D4","U+1C94">>,
    <<"U+10D5","U+1C95">>, <<"U+10D6","U+1C96">>, <<"U+10D7","U+1C97">>,
    <<"U+10D8","U+1C98">>, <<"U+10D9","U+1C99">>, <<"U+10DA","U+1C9A">>,
    <<"U+10DB","U+1C9B">>, <<"U+10DC","U+1C9C">>, <<"U+10DD","U+1C9D">>,
    <<"U+10DE","U+1C9E">>, <<"U+10DF","U+1C9F">>, <<"U+10E0","U+1CA0">>,
    <<"U+10E1","U+1CA1">>, <<"U+10E2","U+1CA2">>, <<"U+10E3","U+1CA3">>,
    <<"U+10E4","U+1CA4">>, <<"U+10E5","U+1CA5">>, <<"U+10E6","U+1CA6">>,
    <<"U+10E7","U+1CA7">>, <<"U+10E8","U+1CA8">>, <<"U+10E9","U+1CA9">>,
    <<"U+10EA","U+1CAA">>, <<"U+10EB","U+1CAB">>, <<"U+10EC","U+1CAC">>,
    <<"U+10ED","U+1CAD">>, <<"U+10EE","U+1CAE">>, <<"U+10EF","U+1CAF">>,
    <<"U+10F0","U+1CB0">>, <<"U+10F1","U+1CB1">>, <<"U+10F2","U+1CB2">>,
    <<"U+10F3","U+1CB3">>, <<"U+10F4","U+1CB4">>, <<"U+10F5","U+1CB5">>,
    <<"U+10F6","U+1CB6">>, <<"U+10F7","U+1CB7">>, <<"U+10F8","U+1CB8">>,
    <<"U+10F9","U+1CB9">>, <<"U+10FA","U+1CBA">>, <<"U+10FD","U+1CBD">>,
    <<"U+10FE","U+1CBE">>, <<"U+10FF","U+1CBF">>, <<"U+13F8","U+13F0">>,
    <<"U+13F9","U+13F1">>, <<"U+13FA","U+13F2">>, <<"U+13FB","U+13F3">>,
    <<"U+13FC","U+13F4">>, <<"U+13FD","U+13F5">>, <<"U+1C80","U+0412">>,
    <<"U+1C81","U+0414">>, <<"U+1C82","U+041E">>, <<"U+1C83","U+0421">>,
    <<"U+1C84","U+0422">>, <<"U+1C85","U+0422">>, <<"U+1C86","U+042A">>,
    <<"U+1C87","U+0462">>, <<"U+1C88","U+A64A">>, <<"U+1D79","U+A77D">>,
    <<"U+1D7D","U+2C63">>, <<"U+1D8E","U+A7C6">>, <<"U+1E01","U+1E00">>,
    <<"U+1E03","U+1E02">>, <<"U+1E05","U+1E04">>, <<"U+1E07","U+1E06">>,
    <<"U+1E09","U+1E08">>, <<"U+1E0B","U+1E0A">>, <<"U+1E0D","U+1E0C">>,
    <<"U+1E0F","U+1E0E">>, <<"U+1E11","U+1E10">>, <<"U+1E13","U+1E12">>,
    <<"U+1E15","U+1E14">>, <<"U+1E17","U+1E16">>, <<"U+1E19","U+1E18">>,
    <<"U+1E1B","U+1E1A">>, <<"U+1E1D","U+1E1C">>, <<"U+1E1F","U+1E1E">>,
    <<"U+1E21","U+1E20">>, <<"U+1E23","U+1E22">>, <<"U+1E25","U+1E24">>,
    <<"U+1E27","U+1E26">>, <<"U+1E29","U+1E28">>, <<"U+1E2B","U+1E2A">>,
    <<"U+1E2D","U+1E2C">>, <<"U+1E2F","U+1E2E">>, <<"U+1E31","U+1E30">>,
    <<"U+1E33","U+1E32">>, <<"U+1E35","U+1E34">>, <<"U+1E37","U+1E36">>,
    <<"U+1E39","U+1E38">>, <<"U+1E3B","U+1E3A">>, <<"U+1E3D","U+1E3C">>,
    <<"U+1E3F","U+1E3E">>, <<"U+1E41","U+1E40">>, <<"U+1E43","U+1E42">>,
    <<"U+1E45","U+1E44">>, <<"U+1E47","U+1E46">>, <<"U+1E49","U+1E48">>,
    <<"U+1E4B","U+1E4A">>, <<"U+1E4D","U+1E4C">>, <<"U+1E4F","U+1E4E">>,
    <<"U+1E51","U+1E50">>, <<"U+1E53","U+1E52">>, <<"U+1E55","U+1E54">>,
    <<"U+1E57","U+1E56">>, <<"U+1E59","U+1E58">>, <<"U+1E5B","U+1E5A">>,
    <<"U+1E5D","U+1E5C">>, <<"U+1E5F","U+1E5E">>, <<"U+1E61","U+1E60">>,
    <<"U+1E63","U+1E62">>, <<"U+1E65","U+1E64">>, <<"U+1E67","U+1E66">>,
    <<"U+1E69","U+1E68">>, <<"U+1E6B","U+1E6A">>, <<"U+1E6D","U+1E6C">>,
    <<"U+1E6F","U+1E6E">>, <<"U+1E71","U+1E70">>, <<"U+1E73","U+1E72">>,
    <<"U+1E75","U+1E74">>, <<"U+1E77","U+1E76">>, <<"U+1E79","U+1E78">>,
    <<"U+1E7B","U+1E7A">>, <<"U+1E7D","U+1E7C">>, <<"U+1E7F","U+1E7E">>,
    <<"U+1E81","U+1E80">>, <<"U+1E83","U+1E82">>, <<"U+1E85","U+1E84">>,
    <<"U+1E87","U+1E86">>, <<"U+1E89","U+1E88">>, <<"U+1E8B","U+1E8A">>,
    <<"U+1E8D","U+1E8C">>, <<"U+1E8F","U+1E8E">>, <<"U+1E91","U+1E90">>,
    <<"U+1E93","U+1E92">>, <<"U+1E95","U+1E94">>, <<"U+1E9B","U+1E60">>,
    <<"U+1EA1","U+1EA0">>, <<"U+1EA3","U+1EA2">>, <<"U+1EA5","U+1EA4">>,
    <<"U+1EA7","U+1EA6">>, <<"U+1EA9","U+1EA8">>, <<"U+1EAB","U+1EAA">>,
    <<"U+1EAD","U+1EAC">>, <<"U+1EAF","U+1EAE">>, <<"U+1EB1","U+1EB0">>,
    <<"U+1EB3","U+1EB2">>, <<"U+1EB5","U+1EB4">>, <<"U+1EB7","U+1EB6">>,
    <<"U+1EB9","U+1EB8">>, <<"U+1EBB","U+1EBA">>, <<"U+1EBD","U+1EBC">>,
    <<"U+1EBF","U+1EBE">>, <<"U+1EC1","U+1EC0">>, <<"U+1EC3","U+1EC2">>,
    <<"U+1EC5","U+1EC4">>, <<"U+1EC7","U+1EC6">>, <<"U+1EC9","U+1EC8">>,
    <<"U+1ECB","U+1ECA">>, <<"U+1ECD","U+1ECC">>, <<"U+1ECF","U+1ECE">>,
    <<"U+1ED1","U+1ED0">>, <<"U+1ED3","U+1ED2">>, <<"U+1ED5","U+1ED4">>,
    <<"U+1ED7","U+1ED6">>, <<"U+1ED9","U+1ED8">>, <<"U+1EDB","U+1EDA">>,
    <<"U+1EDD","U+1EDC">>, <<"U+1EDF","U+1EDE">>, <<"U+1EE1","U+1EE0">>,
    <<"U+1EE3","U+1EE2">>, <<"U+1EE5","U+1EE4">>, <<"U+1EE7","U+1EE6">>,
    <<"U+1EE9","U+1EE8">>, <<"U+1EEB","U+1EEA">>, <<"U+1EED","U+1EEC">>,
    <<"U+1EEF","U+1EEE">>, <<"U+1EF1","U+1EF0">>, <<"U+1EF3","U+1EF2">>,
    <<"U+1EF5","U+1EF4">>, <<"U+1EF7","U+1EF6">>, <<"U+1EF9","U+1EF8">>,
    <<"U+1EFB","U+1EFA">>, <<"U+1EFD","U+1EFC">>, <<"U+1EFF","U+1EFE">>,
    <<"U+1F00","U+1F08">>, <<"U+1F01","U+1F09">>, <<"U+1F02","U+1F0A">>,
    <<"U+1F03","U+1F0B">>, <<"U+1F04","U+1F0C">>, <<"U+1F05","U+1F0D">>,
    <<"U+1F06","U+1F0E">>, <<"U+1F07","U+1F0F">>, <<"U+1F10","U+1F18">>,
    <<"U+1F11","U+1F19">>, <<"U+1F12","U+1F1A">>, <<"U+1F13","U+1F1B">>,
    <<"U+1F14","U+1F1C">>, <<"U+1F15","U+1F1D">>, <<"U+1F20","U+1F28">>,
    <<"U+1F21","U+1F29">>, <<"U+1F22","U+1F2A">>, <<"U+1F23","U+1F2B">>,
    <<"U+1F24","U+1F2C">>, <<"U+1F25","U+1F2D">>, <<"U+1F26","U+1F2E">>,
    <<"U+1F27","U+1F2F">>, <<"U+1F30","U+1F38">>, <<"U+1F31","U+1F39">>,
    <<"U+1F32","U+1F3A">>, <<"U+1F33","U+1F3B">>, <<"U+1F34","U+1F3C">>,
    <<"U+1F35","U+1F3D">>, <<"U+1F36","U+1F3E">>, <<"U+1F37","U+1F3F">>,
    <<"U+1F40","U+1F48">>, <<"U+1F41","U+1F49">>, <<"U+1F42","U+1F4A">>,
    <<"U+1F43","U+1F4B">>, <<"U+1F44","U+1F4C">>, <<"U+1F45","U+1F4D">>,
    <<"U+1F51","U+1F59">>, <<"U+1F53","U+1F5B">>, <<"U+1F55","U+1F5D">>,
    <<"U+1F57","U+1F5F">>, <<"U+1F60","U+1F68">>, <<"U+1F61","U+1F69">>,
    <<"U+1F62","U+1F6A">>, <<"U+1F63","U+1F6B">>, <<"U+1F64","U+1F6C">>,
    <<"U+1F65","U+1F6D">>, <<"U+1F66","U+1F6E">>, <<"U+1F67","U+1F6F">>,
    <<"U+1F70","U+1FBA">>, <<"U+1F71","U+1FBB">>, <<"U+1F72","U+1FC8">>,
    <<"U+1F73","U+1FC9">>, <<"U+1F74","U+1FCA">>, <<"U+1F75","U+1FCB">>,
    <<"U+1F76","U+1FDA">>, <<"U+1F77","U+1FDB">>, <<"U+1F78","U+1FF8">>,
    <<"U+1F79","U+1FF9">>, <<"U+1F7A","U+1FEA">>, <<"U+1F7B","U+1FEB">>,
    <<"U+1F7C","U+1FFA">>, <<"U+1F7D","U+1FFB">>, <<"U+1F80","U+1F88">>,
    <<"U+1F81","U+1F89">>, <<"U+1F82","U+1F8A">>, <<"U+1F83","U+1F8B">>,
    <<"U+1F84","U+1F8C">>, <<"U+1F85","U+1F8D">>, <<"U+1F86","U+1F8E">>,
    <<"U+1F87","U+1F8F">>, <<"U+1F90","U+1F98">>, <<"U+1F91","U+1F99">>,
    <<"U+1F92","U+1F9A">>, <<"U+1F93","U+1F9B">>, <<"U+1F94","U+1F9C">>,
    <<"U+1F95","U+1F9D">>, <<"U+1F96","U+1F9E">>, <<"U+1F97","U+1F9F">>,
    <<"U+1FA0","U+1FA8">>, <<"U+1FA1","U+1FA9">>, <<"U+1FA2","U+1FAA">>,
    <<"U+1FA3","U+1FAB">>, <<"U+1FA4","U+1FAC">>, <<"U+1FA5","U+1FAD">>,
    <<"U+1FA6","U+1FAE">>, <<"U+1FA7","U+1FAF">>, <<"U+1FB0","U+1FB8">>,
    <<"U+1FB1","U+1FB9">>, <<"U+1FB3","U+1FBC">>, <<"U+1FBE","U+0399">>,
    <<"U+1FC3","U+1FCC">>, <<"U+1FD0","U+1FD8">>, <<"U+1FD1","U+1FD9">>,
    <<"U+1FE0","U+1FE8">>, <<"U+1FE1","U+1FE9">>, <<"U+1FE5","U+1FEC">>,
    <<"U+1FF3","U+1FFC">>, <<"U+214E","U+2132">>, <<"U+2170","U+2160">>,
    <<"U+2171","U+2161">>, <<"U+2172","U+2162">>, <<"U+2173","U+2163">>,
    <<"U+2174","U+2164">>, <<"U+2175","U+2165">>, <<"U+2176","U+2166">>,
    <<"U+2177","U+2167">>, <<"U+2178","U+2168">>, <<"U+2179","U+2169">>,
    <<"U+217A","U+216A">>, <<"U+217B","U+216B">>, <<"U+217C","U+216C">>,
    <<"U+217D","U+216D">>, <<"U+217E","U+216E">>, <<"U+217F","U+216F">>,
    <<"U+2184","U+2183">>, <<"U+24D0","U+24B6">>, <<"U+24D1","U+24B7">>,
    <<"U+24D2","U+24B8">>, <<"U+24D3","U+24B9">>, <<"U+24D4","U+24BA">>,
    <<"U+24D5","U+24BB">>, <<"U+24D6","U+24BC">>, <<"U+24D7","U+24BD">>,
    <<"U+24D8","U+24BE">>, <<"U+24D9","U+24BF">>, <<"U+24DA","U+24C0">>,
    <<"U+24DB","U+24C1">>, <<"U+24DC","U+24C2">>, <<"U+24DD","U+24C3">>,
    <<"U+24DE","U+24C4">>, <<"U+24DF","U+24C5">>, <<"U+24E0","U+24C6">>,
    <<"U+24E1","U+24C7">>, <<"U+24E2","U+24C8">>, <<"U+24E3","U+24C9">>,
    <<"U+24E4","U+24CA">>, <<"U+24E5","U+24CB">>, <<"U+24E6","U+24CC">>,
    <<"U+24E7","U+24CD">>, <<"U+24E8","U+24CE">>, <<"U+24E9","U+24CF">>,
    <<"U+2C30","U+2C00">>, <<"U+2C31","U+2C01">>, <<"U+2C32","U+2C02">>,
    <<"U+2C33","U+2C03">>, <<"U+2C34","U+2C04">>, <<"U+2C35","U+2C05">>,
    <<"U+2C36","U+2C06">>, <<"U+2C37","U+2C07">>, <<"U+2C38","U+2C08">>,
    <<"U+2C39","U+2C09">>, <<"U+2C3A","U+2C0A">>, <<"U+2C3B","U+2C0B">>,
    <<"U+2C3C","U+2C0C">>, <<"U+2C3D","U+2C0D">>, <<"U+2C3E","U+2C0E">>,
    <<"U+2C3F","U+2C0F">>, <<"U+2C40","U+2C10">>, <<"U+2C41","U+2C11">>,
    <<"U+2C42","U+2C12">>, <<"U+2C43","U+2C13">>, <<"U+2C44","U+2C14">>,
    <<"U+2C45","U+2C15">>, <<"U+2C46","U+2C16">>, <<"U+2C47","U+2C17">>,
    <<"U+2C48","U+2C18">>, <<"U+2C49","U+2C19">>, <<"U+2C4A","U+2C1A">>,
    <<"U+2C4B","U+2C1B">>, <<"U+2C4C","U+2C1C">>, <<"U+2C4D","U+2C1D">>,
    <<"U+2C4E","U+2C1E">>, <<"U+2C4F","U+2C1F">>, <<"U+2C50","U+2C20">>,
    <<"U+2C51","U+2C21">>, <<"U+2C52","U+2C22">>, <<"U+2C53","U+2C23">>,
    <<"U+2C54","U+2C24">>, <<"U+2C55","U+2C25">>, <<"U+2C56","U+2C26">>,
    <<"U+2C57","U+2C27">>, <<"U+2C58","U+2C28">>, <<"U+2C59","U+2C29">>,
    <<"U+2C5A","U+2C2A">>, <<"U+2C5B","U+2C2B">>, <<"U+2C5C","U+2C2C">>,
    <<"U+2C5D","U+2C2D">>, <<"U+2C5E","U+2C2E">>, <<"U+2C61","U+2C60">>,
    <<"U+2C65","U+023A">>, <<"U+2C66","U+023E">>, <<"U+2C68","U+2C67">>,
    <<"U+2C6A","U+2C69">>, <<"U+2C6C","U+2C6B">>, <<"U+2C73","U+2C72">>,
    <<"U+2C76","U+2C75">>, <<"U+2C81","U+2C80">>, <<"U+2C83","U+2C82">>,
    <<"U+2C85","U+2C84">>, <<"U+2C87","U+2C86">>, <<"U+2C89","U+2C88">>,
    <<"U+2C8B","U+2C8A">>, <<"U+2C8D","U+2C8C">>, <<"U+2C8F","U+2C8E">>,
    <<"U+2C91","U+2C90">>, <<"U+2C93","U+2C92">>, <<"U+2C95","U+2C94">>,
    <<"U+2C97","U+2C96">>, <<"U+2C99","U+2C98">>, <<"U+2C9B","U+2C9A">>,
    <<"U+2C9D","U+2C9C">>, <<"U+2C9F","U+2C9E">>, <<"U+2CA1","U+2CA0">>,
    <<"U+2CA3","U+2CA2">>, <<"U+2CA5","U+2CA4">>, <<"U+2CA7","U+2CA6">>,
    <<"U+2CA9","U+2CA8">>, <<"U+2CAB","U+2CAA">>, <<"U+2CAD","U+2CAC">>,
    <<"U+2CAF","U+2CAE">>, <<"U+2CB1","U+2CB0">>, <<"U+2CB3","U+2CB2">>,
    <<"U+2CB5","U+2CB4">>, <<"U+2CB7","U+2CB6">>, <<"U+2CB9","U+2CB8">>,
    <<"U+2CBB","U+2CBA">>, <<"U+2CBD","U+2CBC">>, <<"U+2CBF","U+2CBE">>,
    <<"U+2CC1","U+2CC0">>, <<"U+2CC3","U+2CC2">>, <<"U+2CC5","U+2CC4">>,
    <<"U+2CC7","U+2CC6">>, <<"U+2CC9","U+2CC8">>, <<"U+2CCB","U+2CCA">>,
    <<"U+2CCD","U+2CCC">>, <<"U+2CCF","U+2CCE">>, <<"U+2CD1","U+2CD0">>,
    <<"U+2CD3","U+2CD2">>, <<"U+2CD5","U+2CD4">>, <<"U+2CD7","U+2CD6">>,
    <<"U+2CD9","U+2CD8">>, <<"U+2CDB","U+2CDA">>, <<"U+2CDD","U+2CDC">>,
    <<"U+2CDF","U+2CDE">>, <<"U+2CE1","U+2CE0">>, <<"U+2CE3","U+2CE2">>,
    <<"U+2CEC","U+2CEB">>, <<"U+2CEE","U+2CED">>, <<"U+2CF3","U+2CF2">>,
    <<"U+2D00","U+10A0">>, <<"U+2D01","U+10A1">>, <<"U+2D02","U+10A2">>,
    <<"U+2D03","U+10A3">>, <<"U+2D04","U+10A4">>, <<"U+2D05","U+10A5">>,
    <<"U+2D06","U+10A6">>, <<"U+2D07","U+10A7">>, <<"U+2D08","U+10A8">>,
    <<"U+2D09","U+10A9">>, <<"U+2D0A","U+10AA">>, <<"U+2D0B","U+10AB">>,
    <<"U+2D0C","U+10AC">>, <<"U+2D0D","U+10AD">>, <<"U+2D0E","U+10AE">>,
    <<"U+2D0F","U+10AF">>, <<"U+2D10","U+10B0">>, <<"U+2D11","U+10B1">>,
    <<"U+2D12","U+10B2">>, <<"U+2D13","U+10B3">>, <<"U+2D14","U+10B4">>,
    <<"U+2D15","U+10B5">>, <<"U+2D16","U+10B6">>, <<"U+2D17","U+10B7">>,
    <<"U+2D18","U+10B8">>, <<"U+2D19","U+10B9">>, <<"U+2D1A","U+10BA">>,
    <<"U+2D1B","U+10BB">>, <<"U+2D1C","U+10BC">>, <<"U+2D1D","U+10BD">>,
    <<"U+2D1E","U+10BE">>, <<"U+2D1F","U+10BF">>, <<"U+2D20","U+10C0">>,
    <<"U+2D21","U+10C1">>, <<"U+2D22","U+10C2">>, <<"U+2D23","U+10C3">>,
    <<"U+2D24","U+10C4">>, <<"U+2D25","U+10C5">>, <<"U+2D27","U+10C7">>,
    <<"U+2D2D","U+10CD">>, <<"U+A641","U+A640">>, <<"U+A643","U+A642">>,
    <<"U+A645","U+A644">>, <<"U+A647","U+A646">>, <<"U+A649","U+A648">>,
    <<"U+A64B","U+A64A">>, <<"U+A64D","U+A64C">>, <<"U+A64F","U+A64E">>,
    <<"U+A651","U+A650">>, <<"U+A653","U+A652">>, <<"U+A655","U+A654">>,
    <<"U+A657","U+A656">>, <<"U+A659","U+A658">>, <<"U+A65B","U+A65A">>,
    <<"U+A65D","U+A65C">>, <<"U+A65F","U+A65E">>, <<"U+A661","U+A660">>,
    <<"U+A663","U+A662">>, <<"U+A665","U+A664">>, <<"U+A667","U+A666">>,
    <<"U+A669","U+A668">>, <<"U+A66B","U+A66A">>, <<"U+A66D","U+A66C">>,
    <<"U+A681","U+A680">>, <<"U+A683","U+A682">>, <<"U+A685","U+A684">>,
    <<"U+A687","U+A686">>, <<"U+A689","U+A688">>, <<"U+A68B","U+A68A">>,
    <<"U+A68D","U+A68C">>, <<"U+A68F","U+A68E">>, <<"U+A691","U+A690">>,
    <<"U+A693","U+A692">>, <<"U+A695","U+A694">>, <<"U+A697","U+A696">>,
    <<"U+A699","U+A698">>, <<"U+A69B","U+A69A">>, <<"U+A723","U+A722">>,
    <<"U+A725","U+A724">>, <<"U+A727","U+A726">>, <<"U+A729","U+A728">>,
    <<"U+A72B","U+A72A">>, <<"U+A72D","U+A72C">>, <<"U+A72F","U+A72E">>,
    <<"U+A733","U+A732">>, <<"U+A735","U+A734">>, <<"U+A737","U+A736">>,
    <<"U+A739","U+A738">>, <<"U+A73B","U+A73A">>, <<"U+A73D","U+A73C">>,
    <<"U+A73F","U+A73E">>, <<"U+A741","U+A740">>, <<"U+A743","U+A742">>,
    <<"U+A745","U+A744">>, <<"U+A747","U+A746">>, <<"U+A749","U+A748">>,
    <<"U+A74B","U+A74A">>, <<"U+A74D","U+A74C">>, <<"U+A74F","U+A74E">>,
    <<"U+A751","U+A750">>, <<"U+A753","U+A752">>, <<"U+A755","U+A754">>,
    <<"U+A757","U+A756">>, <<"U+A759","U+A758">>, <<"U+A75B","U+A75A">>,
    <<"U+A75D","U+A75C">>, <<"U+A75F","U+A75E">>, <<"U+A761","U+A760">>,
    <<"U+A763","U+A762">>, <<"U+A765","U+A764">>, <<"U+A767","U+A766">>,
    <<"U+A769","U+A768">>, <<"U+A76B","U+A76A">>, <<"U+A76D","U+A76C">>,
    <<"U+A76F","U+A76E">>, <<"U+A77A","U+A779">>, <<"U+A77C","U+A77B">>,
    <<"U+A77F","U+A77E">>, <<"U+A781","U+A780">>, <<"U+A783","U+A782">>,
    <<"U+A785","U+A784">>, <<"U+A787","U+A786">>, <<"U+A78C","U+A78B">>,
    <<"U+A791","U+A790">>, <<"U+A793","U+A792">>, <<"U+A794","U+A7C4">>,
    <<"U+A797","U+A796">>, <<"U+A799","U+A798">>, <<"U+A79B","U+A79A">>,
    <<"U+A79D","U+A79C">>, <<"U+A79F","U+A79E">>, <<"U+A7A1","U+A7A0">>,
    <<"U+A7A3","U+A7A2">>, <<"U+A7A5","U+A7A4">>, <<"U+A7A7","U+A7A6">>,
    <<"U+A7A9","U+A7A8">>, <<"U+A7B5","U+A7B4">>, <<"U+A7B7","U+A7B6">>,
    <<"U+A7B9","U+A7B8">>, <<"U+A7BB","U+A7BA">>, <<"U+A7BD","U+A7BC">>,
    <<"U+A7BF","U+A7BE">>, <<"U+A7C3","U+A7C2">>, <<"U+A7C8","U+A7C7">>,
    <<"U+A7CA","U+A7C9">>, <<"U+A7F6","U+A7F5">>, <<"U+AB53","U+A7B3">>,
    <<"U+AB70","U+13A0">>, <<"U+AB71","U+13A1">>, <<"U+AB72","U+13A2">>,
    <<"U+AB73","U+13A3">>, <<"U+AB74","U+13A4">>, <<"U+AB75","U+13A5">>,
    <<"U+AB76","U+13A6">>, <<"U+AB77","U+13A7">>, <<"U+AB78","U+13A8">>,
    <<"U+AB79","U+13A9">>, <<"U+AB7A","U+13AA">>, <<"U+AB7B","U+13AB">>,
    <<"U+AB7C","U+13AC">>, <<"U+AB7D","U+13AD">>, <<"U+AB7E","U+13AE">>,
    <<"U+AB7F","U+13AF">>, <<"U+AB80","U+13B0">>, <<"U+AB81","U+13B1">>,
    <<"U+AB82","U+13B2">>, <<"U+AB83","U+13B3">>, <<"U+AB84","U+13B4">>,
    <<"U+AB85","U+13B5">>, <<"U+AB86","U+13B6">>, <<"U+AB87","U+13B7">>,
    <<"U+AB88","U+13B8">>, <<"U+AB89","U+13B9">>, <<"U+AB8A","U+13BA">>,
    <<"U+AB8B","U+13BB">>, <<"U+AB8C","U+13BC">>, <<"U+AB8D","U+13BD">>,
    <<"U+AB8E","U+13BE">>, <<"U+AB8F","U+13BF">>, <<"U+AB90","U+13C0">>,
    <<"U+AB91","U+13C1">>, <<"U+AB92","U+13C2">>, <<"U+AB93","U+13C3">>,
    <<"U+AB94","U+13C4">>, <<"U+AB95","U+13C5">>, <<"U+AB96","U+13C6">>,
    <<"U+AB97","U+13C7">>, <<"U+AB98","U+13C8">>, <<"U+AB99","U+13C9">>,
    <<"U+AB9A","U+13CA">>, <<"U+AB9B","U+13CB">>, <<"U+AB9C","U+13CC">>,
    <<"U+AB9D","U+13CD">>, <<"U+AB9E","U+13CE">>, <<"U+AB9F","U+13CF">>,
    <<"U+ABA0","U+13D0">>, <<"U+ABA1","U+13D1">>, <<"U+ABA2","U+13D2">>,
    <<"U+ABA3","U+13D3">>, <<"U+ABA4","U+13D4">>, <<"U+ABA5","U+13D5">>,
    <<"U+ABA6","U+13D6">>, <<"U+ABA7","U+13D7">>, <<"U+ABA8","U+13D8">>,
    <<"U+ABA9","U+13D9">>, <<"U+ABAA","U+13DA">>, <<"U+ABAB","U+13DB">>,
    <<"U+ABAC","U+13DC">>, <<"U+ABAD","U+13DD">>, <<"U+ABAE","U+13DE">>,
    <<"U+ABAF","U+13DF">>, <<"U+ABB0","U+13E0">>, <<"U+ABB1","U+13E1">>,
    <<"U+ABB2","U+13E2">>, <<"U+ABB3","U+13E3">>, <<"U+ABB4","U+13E4">>,
    <<"U+ABB5","U+13E5">>, <<"U+ABB6","U+13E6">>, <<"U+ABB7","U+13E7">>,
    <<"U+ABB8","U+13E8">>, <<"U+ABB9","U+13E9">>, <<"U+ABBA","U+13EA">>,
    <<"U+ABBB","U+13EB">>, <<"U+ABBC","U+13EC">>, <<"U+ABBD","U+13ED">>,
    <<"U+ABBE","U+13EE">>, <<"U+ABBF","U+13EF">>, <<"U+FF41","U+FF21">>,
    <<"U+FF42","U+FF22">>, <<"U+FF43","U+FF23">>, <<"U+FF44","U+FF24">>,
    <<"U+FF45","U+FF25">>, <<"U+FF46","U+FF26">>, <<"U+FF47","U+FF27">>,
    <<"U+FF48","U+FF28">>, <<"U+FF49","U+FF29">>, <<"U+FF4A","U+FF2A">>,
    <<"U+FF4B","U+FF2B">>, <<"U+FF4C","U+FF2C">>, <<"U+FF4D","U+FF2D">>,
    <<"U+FF4E","U+FF2E">>, <<"U+FF4F","U+FF2F">>, <<"U+FF50","U+FF30">>,
    <<"U+FF51","U+FF31">>, <<"U+FF52","U+FF32">>, <<"U+FF53","U+FF33">>,
    <<"U+FF54","U+FF34">>, <<"U+FF55","U+FF35">>, <<"U+FF56","U+FF36">>,
    <<"U+FF57","U+FF37">>, <<"U+FF58","U+FF38">>, <<"U+FF59","U+FF39">>,
    <<"U+FF5A","U+FF3A">>, <<"U+10428","U+10400">>, <<"U+10429","U+10401">>,
    <<"U+1042A","U+10402">>, <<"U+1042B","U+10403">>,
    <<"U+1042C","U+10404">>, <<"U+1042D","U+10405">>,
    <<"U+1042E","U+10406">>, <<"U+1042F","U+10407">>,
    <<"U+10430","U+10408">>, <<"U+10431","U+10409">>,
    <<"U+10432","U+1040A">>, <<"U+10433","U+1040B">>,
    <<"U+10434","U+1040C">>, <<"U+10435","U+1040D">>,
    <<"U+10436","U+1040E">>, <<"U+10437","U+1040F">>,
    <<"U+10438","U+10410">>, <<"U+10439","U+10411">>,
    <<"U+1043A","U+10412">>, <<"U+1043B","U+10413">>,
    <<"U+1043C","U+10414">>, <<"U+1043D","U+10415">>,
    <<"U+1043E","U+10416">>, <<"U+1043F","U+10417">>,
    <<"U+10440","U+10418">>, <<"U+10441","U+10419">>,
    <<"U+10442","U+1041A">>, <<"U+10443","U+1041B">>,
    <<"U+10444","U+1041C">>, <<"U+10445","U+1041D">>,
    <<"U+10446","U+1041E">>, <<"U+10447","U+1041F">>,
    <<"U+10448","U+10420">>, <<"U+10449","U+10421">>,
    <<"U+1044A","U+10422">>, <<"U+1044B","U+10423">>,
    <<"U+1044C","U+10424">>, <<"U+1044D","U+10425">>,
    <<"U+1044E","U+10426">>, <<"U+1044F","U+10427">>,
    <<"U+104D8","U+104B0">>, <<"U+104D9","U+104B1">>,
    <<"U+104DA","U+104B2">>, <<"U+104DB","U+104B3">>,
    <<"U+104DC","U+104B4">>, <<"U+104DD","U+104B5">>,
    <<"U+104DE","U+104B6">>, <<"U+104DF","U+104B7">>,
    <<"U+104E0","U+104B8">>, <<"U+104E1","U+104B9">>,
    <<"U+104E2","U+104BA">>, <<"U+104E3","U+104BB">>,
    <<"U+104E4","U+104BC">>, <<"U+104E5","U+104BD">>,
    <<"U+104E6","U+104BE">>, <<"U+104E7","U+104BF">>,
    <<"U+104E8","U+104C0">>, <<"U+104E9","U+104C1">>,
    <<"U+104EA","U+104C2">>, <<"U+104EB","U+104C3">>,
    <<"U+104EC","U+104C4">>, <<"U+104ED","U+104C5">>,
    <<"U+104EE","U+104C6">>, <<"U+104EF","U+104C7">>,
    <<"U+104F0","U+104C8">>, <<"U+104F1","U+104C9">>,
    <<"U+104F2","U+104CA">>, <<"U+104F3","U+104CB">>,
    <<"U+104F4","U+104CC">>, <<"U+104F5","U+104CD">>,
    <<"U+104F6","U+104CE">>, <<"U+104F7","U+104CF">>,
    <<"U+104F8","U+104D0">>, <<"U+104F9","U+104D1">>,
    <<"U+104FA","U+104D2">>, <<"U+104FB","U+104D3">>,
    <<"U+10CC0","U+10C80">>, <<"U+10CC1","U+10C81">>,
    <<"U+10CC2","U+10C82">>, <<"U+10CC3","U+10C83">>,
    <<"U+10CC4","U+10C84">>, <<"U+10CC5","U+10C85">>,
    <<"U+10CC6","U+10C86">>, <<"U+10CC7","U+10C87">>,
    <<"U+10CC8","U+10C88">>, <<"U+10CC9","U+10C89">>,
    <<"U+10CCA","U+10C8A">>, <<"U+10CCB","U+10C8B">>,
    <<"U+10CCC","U+10C8C">>, <<"U+10CCD","U+10C8D">>,
    <<"U+10CCE","U+10C8E">>, <<"U+10CCF","U+10C8F">>,
    <<"U+10CD0","U+10C90">>, <<"U+10CD1","U+10C91">>,
    <<"U+10CD2","U+10C92">>, <<"U+10CD3","U+10C93">>,
    <<"U+10CD4","U+10C94">>, <<"U+10CD5","U+10C95">>,
    <<"U+10CD6","U+10C96">>, <<"U+10CD7","U+10C97">>,
    <<"U+10CD8","U+10C98">>, <<"U+10CD9","U+10C99">>,
    <<"U+10CDA","U+10C9A">>, <<"U+10CDB","U+10C9B">>,
    <<"U+10CDC","U+10C9C">>, <<"U+10CDD","U+10C9D">>,
    <<"U+10CDE","U+10C9E">>, <<"U+10CDF","U+10C9F">>,
    <<"U+10CE0","U+10CA0">>, <<"U+10CE1","U+10CA1">>,
    <<"U+10CE2","U+10CA2">>, <<"U+10CE3","U+10CA3">>,
    <<"U+10CE4","U+10CA4">>, <<"U+10CE5","U+10CA5">>,
    <<"U+10CE6","U+10CA6">>, <<"U+10CE7","U+10CA7">>,
    <<"U+10CE8","U+10CA8">>, <<"U+10CE9","U+10CA9">>,
    <<"U+10CEA","U+10CAA">>, <<"U+10CEB","U+10CAB">>,
    <<"U+10CEC","U+10CAC">>, <<"U+10CED","U+10CAD">>,
    <<"U+10CEE","U+10CAE">>, <<"U+10CEF","U+10CAF">>,
    <<"U+10CF0","U+10CB0">>, <<"U+10CF1","U+10CB1">>,
    <<"U+10CF2","U+10CB2">>, <<"U+118C0","U+118A0">>,
    <<"U+118C1","U+118A1">>, <<"U+118C2","U+118A2">>,
    <<"U+118C3","U+118A3">>, <<"U+118C4","U+118A4">>,
    <<"U+118C5","U+118A5">>, <<"U+118C6","U+118A6">>,
    <<"U+118C7","U+118A7">>, <<"U+118C8","U+118A8">>,
    <<"U+118C9","U+118A9">>, <<"U+118CA","U+118AA">>,
    <<"U+118CB","U+118AB">>, <<"U+118CC","U+118AC">>,
    <<"U+118CD","U+118AD">>, <<"U+118CE","U+118AE">>,
    <<"U+118CF","U+118AF">>, <<"U+118D0","U+118B0">>,
    <<"U+118D1","U+118B1">>, <<"U+118D2","U+118B2">>,
    <<"U+118D3","U+118B3">>, <<"U+118D4","U+118B4">>,
    <<"U+118D5","U+118B5">>, <<"U+118D6","U+118B6">>,
    <<"U+118D7","U+118B7">>, <<"U+118D8","U+118B8">>,
    <<"U+118D9","U+118B9">>, <<"U+118DA","U+118BA">>,
    <<"U+118DB","U+118BB">>, <<"U+118DC","U+118BC">>,
    <<"U+118DD","U+118BD">>, <<"U+118DE","U+118BE">>,
    <<"U+118DF","U+118BF">>, <<"U+16E60","U+16E40">>,
    <<"U+16E61","U+16E41">>, <<"U+16E62","U+16E42">>,
    <<"U+16E63","U+16E43">>, <<"U+16E64","U+16E44">>,
    <<"U+16E65","U+16E45">>, <<"U+16E66","U+16E46">>,
    <<"U+16E67","U+16E47">>, <<"U+16E68","U+16E48">>,
    <<"U+16E69","U+16E49">>, <<"U+16E6A","U+16E4A">>,
    <<"U+16E6B","U+16E4B">>, <<"U+16E6C","U+16E4C">>,
    <<"U+16E6D","U+16E4D">>, <<"U+16E6E","U+16E4E">>,
    <<"U+16E6F","U+16E4F">>, <<"U+16E70","U+16E50">>,
    <<"U+16E71","U+16E51">>, <<"U+16E72","U+16E52">>,
    <<"U+16E73","U+16E53">>, <<"U+16E74","U+16E54">>,
    <<"U+16E75","U+16E55">>, <<"U+16E76","U+16E56">>,
    <<"U+16E77","U+16E57">>, <<"U+16E78","U+16E58">>,
    <<"U+16E79","U+16E59">>, <<"U+16E7A","U+16E5A">>,
    <<"U+16E7B","U+16E5B">>, <<"U+16E7C","U+16E5C">>,
    <<"U+16E7D","U+16E5D">>, <<"U+16E7E","U+16E5E">>,
    <<"U+16E7F","U+16E5F">>, <<"U+1E922","U+1E900">>,
    <<"U+1E923","U+1E901">>, <<"U+1E924","U+1E902">>,
    <<"U+1E925","U+1E903">>, <<"U+1E926","U+1E904">>,
    <<"U+1E927","U+1E905">>, <<"U+1E928","U+1E906">>,
    <<"U+1E929","U+1E907">>, <<"U+1E92A","U+1E908">>,
    <<"U+1E92B","U+1E909">>, <<"U+1E92C","U+1E90A">>,
    <<"U+1E92D","U+1E90B">>, <<"U+1E92E","U+1E90C">>,
    <<"U+1E92F","U+1E90D">>, <<"U+1E930","U+1E90E">>,
    <<"U+1E931","U+1E90F">>, <<"U+1E932","U+1E910">>,
    <<"U+1E933","U+1E911">>, <<"U+1E934","U+1E912">>,
    <<"U+1E935","U+1E913">>, <<"U+1E936","U+1E914">>,
    <<"U+1E937","U+1E915">>, <<"U+1E938","U+1E916">>,
    <<"U+1E939","U+1E917">>, <<"U+1E93A","U+1E918">>,
    <<"U+1E93B","U+1E919">>, <<"U+1E93C","U+1E91A">>,
    <<"U+1E93D","U+1E91B">>, <<"U+1E93E","U+1E91C">>,
    <<"U+1E93F","U+1E91D">>, <<"U+1E940","U+1E91E">>,
    <<"U+1E941","U+1E91F">>, <<"U+1E942","U+1E920">>,
    <<"U+1E943","U+1E921">> }

\* the table as a function of the rune
UnicodeUpper ==
  [c \in {p[1] : p \in UpperPairs} |-> (CHOOSE p \in UpperPairs : p[1] = c)[2]]

\* unicode.ToUpper on one rune
UpperChar(c) ==
  IF \E i \in 1..26 : LowerLetters[i] = c
  THEN UpperLetters[CHOOSE i \in 1..26 : LowerLetters[i] = c]
  ELSE IF c \in DOMAIN UnicodeUpper THEN UnicodeUpper[c]
  ELSE c

\* variant: a string compared as it is written
ToUpper_Identity(s) == s

RECURSIVE ToUpper(_)
\* strings.ToUpper: every rune replaced by its upper case
ToUpper(s) ==
  IF s = <<>> THEN <<>> ELSE <<UpperChar(Head(s))>> \o ToUpper(Tail(s))

\* unicode.IsSpace: the white space strings.TrimSpace removes
IsSpace(c) ==
  c \in {" ", "\t", "\n", "\r", "\f", "U+000B", "U+0085", "U+00A0", "U+1680",
         "U+2000", "U+2001", "U+2002", "U+2003", "U+2004", "U+2005", "U+2006",
         "U+2007", "U+2008", "U+2009", "U+200A", "U+2028", "U+2029", "U+202F",
         "U+205F", "U+3000"}

RECURSIVE TrimSpace(_)
\* strings.TrimSpace: s without its leading and trailing white space
TrimSpace(s) ==
  IF s = <<>> THEN <<>>
  ELSE IF IsSpace(Head(s)) THEN TrimSpace(Tail(s))
  ELSE IF IsSpace(s[Len(s)]) THEN TrimSpace(SubSeq(s, 1, Len(s) - 1))
  ELSE s

\* strings.ReplaceAll(s, old, new) for one-character old and new
ReplaceAll(s, old, new) ==
  [i \in 1..Len(s) |-> IF s[i] = old THEN new ELSE s[i]]

RECURSIVE Digits(_)
\* the decimal digits of n >= 0, without padding (strconv.FormatUint(n, 10))
Digits(n) ==
  IF n < 10 THEN <<DigitChars[n + 1]>>
  ELSE Digits(n \div 10) \o <<DigitChars[(n % 10) + 1]>>

RECURSIVE Zeros(_)
Zeros(k) == IF k <= 0 THEN <<>> ELSE <<"0">> \o Zeros(k - 1)

\* fmt's %0<w>d for n >= 0: zero-padded to at least w digits
Pad(n, w) == Zeros(w - Len(Digits(n))) \o Digits(n)

\* fmt's %0<w>d, sign included in the width
PadSigned(n, w) ==
  IF n >= 0 THEN Pad(n, w) ELSE <<"-">> \o Pad(0 - n, w - 1)

RECURSIVE Join(_, _)
\* strings.Join(parts, sep)
Join(parts, sep) ==
  IF Len(parts) = 0 THEN <<>>
  ELSE IF Len(parts) = 1 THEN parts[1]
  ELSE parts[1] \o sep \o Join(Tail(parts), sep)

EndsWith(s, suffix) ==
  /\ Len(suffix) <= Len(s)
  /\ SubSeq(s, Len(s) - Len(suffix) + 1, Len(s)) = suffix

StartsWith(s, prefix) ==
  /\ Len(prefix) <= Len(s)
  /\ SubSeq(s, 1, Len(prefix)) = prefix

\* the offsets (0-based) at which part occurs in s
Occurrences(s, part) ==
  {i \in 0..(Len(s) - Len(part)) : SubSeq(s, i + 1, i + Len(part)) = part}

Contains(s, part) == Occurrences(s, part) # {}

(* ------------------------------ levels -------------------------------- *)

LevelDebug == <<"D","E","B","U","G">>

LevelInfo == <<"I","N","F","O">>

LevelNotice == <<"N","O","T","I","C","E">>

LevelWarning == <<"W","A","R","N","I","N","G">>

LevelError == <<"E","R","R","O","R">>

LevelEmergency == <<"E","M","E","R","G","E","N","C","Y">>

LevelFatal == <<"F","A","T","A","L">>

\* the keys of the map LevelWeights
Levels ==
  {LevelDebug, LevelInfo, LevelNotice, LevelWarning, LevelError,
   LevelEmergency, LevelFatal}

LevelWeights(level) ==
  CASE level = LevelDebug     -> 0
    [] level = LevelInfo      -> 1
    [] level = LevelNotice    -> 2
    [] level = LevelWarning   -> 3
    [] level = LevelError     -> 4
    [] level = LevelEmergency -> 5
    [] level = LevelFatal     -> 6

\* Go's LevelWeights[level] for any string: the zero value for a missing key
WeightOrZero(level) == IF level \in Levels THEN LevelWeights(level) ELSE 0


(* ------------------------------- clock -------------------------------- *)

\* int(x) of Go: truncation toward zero
TruncDiv(a, b) == IF a >= 0 THEN a \div b ELSE 0 - ((0 - a) \div b)

\* t.Format("2006-01-02"): the date of calendar day d of the model's month
FormatDate(d) == <<"2","0","0","6","-","0","1","-">> \o Pad(d, 2)

\* t.Format("2006-01-02 15:04:05.000000") for clock reading us (microseconds
\* into the day) on calendar day d
FormatTime(d, us) ==
  FormatDate(d) \o <<" ">>
    \o Pad((us \div 1000000) \div 3600, 2) \o <<":">>
    \o Pad(((us \div 1000000) \div 60) % 60, 2) \o <<":">>
    \o Pad((us \div 1000000) % 60, 2) \o <<".">>
    \o Pad(us % 1000000, 6)

\* The float64 values microTime returns lie between 2^30 and 2^31 seconds
\* (the years 2004 to 2038), where float64 values are 2^-22 s apart.  The
\* model writes such a value, and every difference of two of them, as whole
\* seconds s and a whole number u of these units, of the same sign, the value
\* being s + u * 2^-22; Zero is the zero value of an unset variable.
UlpsPerSecond == 4194304

\* float64(0)
Zero == [s |-> 0, u |-> 0]

\* now.Unix() at the start of calendar day d of the model's month, in UTC
UnixSecond(d) == 1136073600 + (d - 1) * 86400

\* microTime() when time.Now() reads r: float64(now.Unix()) +
\* float64(now.Nanosecond())/1000000000, the sum rounded to the nearest
\* float64
microTime(r) ==
  [s |-> UnixSecond(r[2]), u |-> (r[1] * UlpsPerSecond + 500000) \div 1000000]

\* a - b on two such float64 values: the difference is exact
Minus(a, b) ==
  LET ds == a.s - b.s
      du == a.u - b.u
  IN  IF ds > 0 /\ du < 0 THEN [s |-> ds - 1, u |-> du + UlpsPerSecond]
      ELSE IF ds < 0 /\ du > 0 THEN [s |-> ds + 1, u |-> du - UlpsPerSecond]
      ELSE [s |-> ds, u |-> du]

\* a < b
LessThan(a, b) == a.s < b.s \/ (a.s = b.s /\ a.u < b.u)

\* int(x * 1000000) for a float64 x of f units, less than a second: the
\* product f * 15625 / 65536 is exact in float64 and int() drops its fraction
MicroSeconds(f) ==
  LET a == IF f < 0 THEN 0 - f ELSE f
      m == (a \div 65536) * 15625 + ((a % 65536) * 15625) \div 65536
  IN  IF f < 0 THEN 0 - m ELSE m

\* formatMicroTimeDuration: the divisions give whole numbers that int()
\* truncates, the subtractions are exact
formatMicroTimeDuration(duration) ==
  LET secs    == duration.s + TruncDiv(duration.u, UlpsPerSecond)
      days    == TruncDiv(secs, 86400)
      d1      == secs - days * 86400
      hours   == TruncDiv(d1, 3600)
      d2      == d1 - hours * 3600
      minutes == TruncDiv(d2, 60)
      seconds == d2 - minutes * 60
      microSeconds ==
        MicroSeconds(duration.u - TruncDiv(duration.u, UlpsPerSecond) * UlpsPerSecond)
  IN  PadSigned(days, 2) \o <<":">> \o PadSigned(hours, 2) \o <<":">>
        \o PadSigned(minutes, 2) \o <<":">> \o PadSigned(seconds, 2) \o <<".">>
        \o PadSigned(microSeconds, 6)

(* ------------------------------ requests ------------------------------ *)

\* New(): the zero value of the Request struct
New ==
  [ConnectionTime |-> <<>>, Method |-> <<>>, Path |-> <<>>, IP |-> <<>>,
   Address |-> <<>>, UserAgent |-> <<>>, Referer |-> <<>>,
   ConnectionID |-> 0, ConnectionSeq |-> 0, RequestedHost |-> <<>>,
   Continent |-> <<>>, Country |-> <<>>, CountryCode |-> <<>>, City |-> <<>>,
   Latitude |-> 0, Longitude |-> 0, Timezone |-> <<>>, PostalCode |-> <<>>,
   Subdivision |-> <<>>, SubdivisionCode |-> <<>>]

\* fmt.Sprintf("%.12f", v), v given in millionths
FormatFloat12(v) ==
  LET a == IF v < 0 THEN 0 - v ELSE v
  IN  (IF v < 0 THEN <<"-">> ELSE <<>>)
        \o Digits(a \div 1000000) \o <<".">> \o Pad(a % 1000000, 6) \o Zeros(6)

\* GetCSVHeader of src/unnamed/part_002
GetCSVHeaderGeo ==
  << <<"c","o","n","n","e","c","t","i","o","n","_","t","i","m","e">>,
     <<"m","e","t","h","o","d">>,
     <<"p","a","t","h">>,
     <<"i","p">>,
     <<"a","d","d","r","e","s","s">>,
     <<"u","s","e","r","_","a","g","e","n","t">>,
     <<"r","e","f","e","r","e","r">>,
     <<"r","e","q","u","e","s","t","e","d","_","h","o","s","t">>,
     <<"c","o","n","t","i","n","e","n","t">>,
     <<"c","o","u","n","t","r","y">>,
     <<"c","o","u","n","t","r","y","_","c","o","d","e">>,
     <<"c","i","t","y">>,
     <<"l","a","t","i","t","u","d","e">>,
     <<"l","o","n","g","i","t","u","d","e">>,
     <<"t","i","m","e","z","o","n","e">>,
     <<"p","o","s","t","a","l","_","c","o","d","e">>,
     <<"s","u","b","d","i","v","i","s","i","o","n">>,
     <<"s","u","b","d","i","v","i","s","i","o","n","_","c","o","d","e">>,
     <<"c","o","n","n","e","c","t","i","o","n","_","i","d">>,
     <<"c","o","n","n","e","c","t","i","o","n","_","s","e","q">> >>

\* GetCSVHeader of src/request.go
GetCSVHeaderPlain ==
  << <<"c","o","n","n","e","c","t","i","o","n","_","t","i","m","e">>,
     <<"m","e","t","h","o","d">>,
     <<"p","a","t","h">>,
     <<"i","p">>,
     <<"a","d","d","r","e","s","s">>,
     <<"u","s","e","r","_","a","g","e","n","t">>,
     <<"r","e","f","e","r","e","r">>,
     <<"c","o","n","n","e","c","t","i","o","n","_","i","d">>,
     <<"c","o","n","n","e","c","t","i","o","n","_","s","e","q">>,
     <<"r","e","q","u","e","s","t","e","d","_","h","o","s","t">> >>

\* Request.ToCSV of src/unnamed/part_002
ToCSVGeo(r) ==
  r.ConnectionTime \o <<",">> \o r.Method \o <<",">> \o r.Path \o <<",">>
    \o r.IP \o <<",">> \o r.Address \o <<",">> \o r.UserAgent \o <<",">>
    \o r.Referer \o <<",">> \o r.RequestedHost \o <<",">>
    \o r.Continent \o <<",">> \o r.Country \o <<",">> \o r.CountryCode \o <<",">>
    \o r.City \o <<",">> \o FormatFloat12(r.Latitude) \o <<",">>
    \o FormatFloat12(r.Longitude) \o <<",">> \o r.Timezone \o <<",">>
    \o r.PostalCode \o <<",">> \o r.Subdivision \o <<",">>
    \o r.SubdivisionCode \o <<",">> \o Digits(r.ConnectionID) \o <<",">>
    \o Digits(r.ConnectionSeq) \o <<"\n">>

\* Request.ToCSV of src/request.go
ToCSVPlain(r) ==
  r.ConnectionTime \o <<",">> \o r.Method \o <<",">> \o r.Path \o <<",">>
    \o r.IP \o <<",">> \o r.Address \o <<",">> \o r.UserAgent \o <<",">>
    \o r.Referer \o <<",">> \o r.RequestedHost \o <<",">>
    \o Digits(r.ConnectionID) \o <<",">> \o Digits(r.ConnectionSeq) \o <<"\n">>

\* the header line LogRequest of src/unnamed/part_002 writes
HeaderLine == Join(GetCSVHeaderGeo, <<",">>) \o <<"\n">>

\* fmt.Sprintf("(%s) %s <- %s @ %s", req.Method, req.Path, req.UserAgent, req.IP)
RequestSummary(r) ==
  <<"(">> \o r.Method \o <<")", " ">> \o r.Path \o <<" ", "<", "-", " ">>
    \o r.UserAgent \o <<" ", "@", " ">> \o r.IP

RECURSIVE Hole(_)
\* the bytes a write past the end of a file leaves unwritten
Hole(k) == IF k <= 0 THEN <<>> ELSE <<"NUL">> \o Hole(k - 1)

\* writing data through a handle without O_APPEND whose offset is off
WriteAt(content, off, data) ==
  LET base == IF off > Len(content)
              THEN content \o Hole(off - Len(content))
              ELSE content
  IN  SubSeq(base, 1, off) \o data
        \o SubSeq(base, off + Len(data) + 1, Len(base))


(* ------------------------------- inputs ------------------------------- *)

\* message bodies the host logs
Msgs == { <<"h","e","l","l","o">> }

\* level arguments of Log and LogAsync: the seven names and three that are
\* no key of LevelWeights (Log does not upper-case its argument)
LogLevelInputs ==
  Levels \cup { <<"i","n","f","o">>, <<"T","R","A","C","E">>, <<>> }

\* arguments of SetMinimumLogLevel
SetLevelInputs ==
  Levels \cup { <<"d","e","b","u","g">>, <<"I","n","f","o">>,
                <<"e","m","e","r","g","e","n","c","y">>, <<"f","a","t","a","L">>,
                <<"T","R","A","C","E">>, <<"w","a","r","n">>, <<>>,
                <<DotlessI,"n","f","o">> }

\* a request as the fiber adapter hands it over
ReqPlain ==
  [New EXCEPT !.ConnectionTime = <<"T">>, !.Method = <<"G","E","T">>,
              !.Path = <<"/">>, !.IP = <<":",":","1">>,
              !.Address = <<":",":","1">>, !.UserAgent = <<"u","a">>,
              !.ConnectionID = 7, !.ConnectionSeq = 12,
              !.RequestedHost = <<"h">>]

\* a request whose user agent holds commas
ReqComma ==
  [ReqPlain EXCEPT !.UserAgent = <<"a",",","b",",","c">>,
                   !.Method = <<"P","U","T">>,
                   !.Country = <<"U","n","k","n","o","w","n">>,
                   !.Latitude = 52520008, !.Longitude = 0 - 74005974]

\* a request with commas in its user agent and in its path
ReqCommaPath == [ReqComma EXCEPT !.Path = <<"/","a",",","b">>]

Requests == {ReqPlain, ReqComma, ReqCommaPath}

Repeat(c, k) == [i \in 1..k |-> c]

\* a request whose row is longer than the header line
ReqLong == [ReqPlain EXCEPT !.UserAgent = Repeat("M", LongAgent)]

\* the requests of concurrent callers
RaceRequests == {ReqPlain, ReqLong}

\* what LogRequestFromFiber reads from the fiber context: c.Method(),
\* c.Path(), c.IP(), c.IPs(), the connection time, remote address,
\* connection id, request number and host of c.Context(), and two headers
CtxDirect ==
  [Method |-> <<"G","E","T">>, Path |-> <<"/">>, IP |-> <<":",":","1">>,
   IPs |-> <<>>, ConnTime |-> <<"T">>, RemoteAddr |-> <<":",":","1">>,
   UserAgent |-> <<"u","a">>, Referer |-> <<>>, ConnID |-> 7,
   ConnRequestNum |-> 12, Host |-> <<"h">>]

\* a request that came through a proxy which names no client address
CtxProxied ==
  [CtxDirect EXCEPT !.IPs = << <<"u","n","k","n","o","w","n">> >>,
                    !.UserAgent = <<"a",",","b">>]

\* a request whose proxy header carries half an address
CtxMalformed == [CtxDirect EXCEPT !.IPs = << <<"1",".","2",".","3">> >>]

Contexts == {CtxDirect, CtxProxied, CtxMalformed}

RECURSIVE SplitOn(_, _)
\* the parts of s between the occurrences of the character c
SplitOn(s, c) ==
  IF \A i \in 1..Len(s) : s[i] # c
  THEN <<s>>
  ELSE LET i == CHOOSE k \in 1..Len(s) :
                  s[k] = c /\ \A j \in 1..(k - 1) : s[j] # c
       IN  <<SubSeq(s, 1, i - 1)>> \o SplitOn(SubSeq(s, i + 1, Len(s)), c)

\* the value of a decimal digit
DigitValue(c) == (CHOOSE i \in 1..10 : DigitChars[i] = c) - 1

HexChars == {"0","1","2","3","4","5","6","7","8","9",
             "a","b","c","d","e","f","A","B","C","D","E","F"}

\* one field of a dotted quad: one to three digits, no leading zero, at
\* most 255
IPv4Field(f) ==
  /\ Len(f) \in 1..3
  /\ \A i \in 1..Len(f) : \E k \in 1..10 : DigitChars[k] = f[i]
  /\ Len(f) > 1 => f[1] # "0"
  /\ Len(f) = 3 =>
       100 * DigitValue(f[1]) + 10 * DigitValue(f[2]) + DigitValue(f[3]) <= 255

\* the text is an IPv4 address: four fields between three dots
parseIPv4(s) ==
  LET p == SplitOn(s, ".")
  IN  Len(p) = 4 /\ \A i \in 1..4 : IPv4Field(p[i])

\* one group of an IPv6 address: one to four hexadecimal digits
IPv6Field(f) == Len(f) \in 1..4 /\ \A i \in 1..Len(f) : f[i] \in HexChars

\* the 16-bit groups a list of fields fills, the last field being a group or
\* a dotted quad of two groups; -1 for a list that is no such list
IPv6Groups(fs) ==
  IF fs = <<>> THEN 0
  ELSE IF \E i \in 1..(Len(fs) - 1) : ~IPv6Field(fs[i]) THEN -1
  ELSE IF IPv6Field(fs[Len(fs)]) THEN Len(fs)
  ELSE IF parseIPv4(fs[Len(fs)]) THEN Len(fs) + 1
  ELSE -1

\* the text is an IPv6 address: eight groups, or fewer around one "::"
parseIPv6(s) ==
  LET ell == {i \in 1..(Len(s) - 1) : s[i] = ":" /\ s[i + 1] = ":"}
      fields(x) == IF x = <<>> THEN <<>> ELSE SplitOn(x, ":")
  IN  IF ell = {}
      THEN IPv6Groups(SplitOn(s, ":")) = 8
      ELSE /\ Cardinality(ell) = 1
           /\ LET i == CHOOSE k \in ell : TRUE
                  left == fields(SubSeq(s, 1, i - 1))
                  right == fields(SubSeq(s, i + 2, Len(s)))
              IN  /\ \A k \in 1..Len(left) : IPv6Field(left[k])
                  /\ IPv6Groups(right) >= 0
                  /\ Len(left) + IPv6Groups(right) <= 7

\* net.ParseIP(ip): the address, or nil (<<>>) for a text that is neither an
\* IPv4 dotted quad nor an IPv6 address; the first dot or colon of the text
\* decides which of the two it is read as
ParseIP(ip) ==
  LET seps == {i \in 1..Len(ip) : ip[i] \in {".", ":"}}
  IN  IF seps = {} THEN <<>>
      ELSE LET i == CHOOSE k \in seps : \A j \in seps : k <= j
           IN  IF ip[i] = "." THEN (IF parseIPv4(ip) THEN ip ELSE <<>>)
               ELSE (IF parseIPv6(ip) THEN ip ELSE <<>>)

\* a city record of the geo database with English names
GeoFound ==
  [Continent |-> <<"E","U">>, Country |-> <<"D","E","U">>,
   CountryIso |-> <<"D","E">>, City |-> <<"B">>, Latitude |-> 52520008,
   Longitude |-> 13404954, TimeZone |-> <<"C","E","T">>,
   Postal |-> <<"1">>,
   Subdivisions |-> << [Name |-> <<"B","E","R">>, IsoCode |-> <<"B","E">>] >>]

\* the record of an address the database does not know: every part empty
GeoBare ==
  [Continent |-> <<>>, Country |-> <<>>, CountryIso |-> <<>>, City |-> <<>>,
   Latitude |-> 0, Longitude |-> 0, TimeZone |-> <<>>, Postal |-> <<>>,
   Subdivisions |-> <<>>]

\* what GeoIPDB.City(rawIP) can return: an error, or a record
GeoResults == {"error", "found", "bare"}

GeoRecord(res) == IF res = "found" THEN GeoFound ELSE GeoBare

Unknown == <<"U","n","k","n","o","w","n">>

\* the geo fields LogRequestFromFiber takes from a city record
WithGeo(req, record) ==
  [req EXCEPT
     !.Continent = IF record.Continent # <<>> THEN record.Continent ELSE Unknown,
     !.Country = IF record.Country # <<>> THEN record.Country ELSE Unknown,
     !.CountryCode = record.CountryIso,
     !.City = record.City,
     !.Latitude = record.Latitude,
     !.Longitude = record.Longitude,
     !.Timezone = record.TimeZone,
     !.PostalCode = record.Postal,
     !.Subdivision =
        IF Len(record.Subdivisions) > 0 /\ record.Subdivisions[1].Name # <<>>
        THEN record.Subdivisions[1].Name ELSE Unknown,
     !.SubdivisionCode =
        IF Len(record.Subdivisions) > 0 /\ record.Subdivisions[1].IsoCode # <<>>
        THEN record.Subdivisions[1].IsoCode ELSE Unknown]

\* the wrappers with a pre-check, by the level each passes to l
WrapperLevel(op) ==
  CASE op = "Debug"   -> LevelDebug
    [] op = "Info"    -> LevelInfo
    [] op = "Warning" -> LevelWarning
    [] op = "Error"   -> LevelError

Wrappers == {"Debug", "Info", "Warning", "Error"}

(* ------------- the older logger.go with a boolean per severity -------- *)

\* the severities that logger.go knows
LegacyLevels == {LevelDebug, LevelInfo, LevelWarning, LevelError, LevelFatal}

\* arguments of its SetMinimumLogLevel
LegacySetInputs == LegacyLevels \cup { <<"d","e","b","u","g">>, <<>> }

\* src/unnamed/part_001 holds two logger.go, and logger says which is
\* linked: the one of lines 1 to 277 ("oldest": no threshold, an l that does
\* not panic) or the one of lines 278 to 652 ("older": a boolean per
\* severity).  These are the package variables of the older one once init()
\* has run with LOGGER_MINIMUM_LOG_LEVEL naming m, or unset for m = WARNING:
\* init() assigns MinimumLogLevel and leaves the four booleans as declared
LegacyPackage(m) ==
  [logger |-> "older", MinimumLogLevel |-> m, debug |-> FALSE, info |-> FALSE,
   warning |-> FALSE, error |-> FALSE]

\* values of LOGGER_MINIMUM_LOG_LEVEL the older logger.go is started with;
\* the empty string stands for a variable that is unset as well
LegacyEnvLevels ==
  LegacyLevels \cup { <<>>, <<" ","D","E","B","U","G"," ">>,
                      <<"\t","E","R","R","O","R","\n">>, <<"d","e","b","u","g">>,
                      <<"N","O","T","I","C","E">> }

\* MinimumLogLevel after init() for a value of LOGGER_MINIMUM_LOG_LEVEL: the
\* value without the white space around it when that is one of the five
\* severities as written, else the WARNING of the declaration
LegacyInitLevel(env) ==
  IF TrimSpace(env) \in LegacyLevels THEN TrimSpace(env) ELSE LevelWarning

\* the package variables of a logger.go of part_001 after init(): those of
\* the older one with every MinimumLogLevel init() can leave, those of the
\* oldest, which has none
LegacyPackages ==
  {LegacyPackage(LegacyInitLevel(env)) : env \in LegacyEnvLevels}
  \cup {[LegacyPackage(LevelWarning) EXCEPT !.logger = "oldest"]}

\* in_array(val, array) for a slice of strings
in_array(val, array) == \E i \in 1..Len(array) : array[i] = val

\* determineLogLevel(): the booleans are set from MinimumLogLevel
determineLogLevel(p) ==
  CASE p.MinimumLogLevel = LevelDebug ->
         [p EXCEPT !.debug = TRUE, !.info = TRUE, !.warning = TRUE, !.error = TRUE]
    [] p.MinimumLogLevel = LevelInfo ->
         [p EXCEPT !.debug = FALSE, !.info = TRUE, !.warning = TRUE, !.error = TRUE]
    [] p.MinimumLogLevel = LevelWarning ->
         [p EXCEPT !.debug = FALSE, !.info = FALSE, !.warning = TRUE, !.error = TRUE]
    [] p.MinimumLogLevel = LevelError ->
         [p EXCEPT !.debug = FALSE, !.info = FALSE, !.warning = FALSE, !.error = TRUE]
    [] p.MinimumLogLevel = LevelFatal ->
         [p EXCEPT !.debug = FALSE, !.info = FALSE, !.warning = FALSE, !.error = FALSE]
    [] OTHER -> p

\* the boolean a wrapper of logger.go tests
LegacyFlag(p, op) ==
  CASE op = "Debug"   -> p.debug
    [] op = "Info"    -> p.info
    [] op = "Warning" -> p.warning
    [] op = "Error"   -> p.error

(* ------------------------------- state -------------------------------- *)

VARIABLES
  minimumLogLevel,          \* var minimumLogLevel
  levelWeight,              \* var levelWeight
  logDirExists,             \* var logDirExists, the cached flag
  start,                    \* var start; Zero while unset
  lastStep,                 \* var lastStep
  IncludeRuntime,
  IncludeStep,
  Component,
  LogRequestsSeparately,
  HideRequestsFromMainLog,
  build,                    \* which LogRequest is linked
  GeoIPDB,                  \* var GeoIPDB: "nil" or "db", a reader that is open
  legacy,                   \* the threshold and the boolean per severity
                            \* that the older logger.go keeps
  dirOnDisk,                \* whether LogDir exists in the file system
  mainLog,                  \* day -> content of LogDir/<date>.log
  csvExists,                \* day -> whether LogDir/requests-<date>.csv exists
  csv,                      \* day -> content of LogDir/requests-<date>.csv
  simpleCsv,                \* day -> content of LogDir/requests-simple-<date>.csv
  nOpen,                    \* file handles open in the process
  proc,                     \* "running", "exited" (os.Exit) or "crashed" (panic)
  g,                        \* the goroutines inside the package
  ncalls                    \* calls made so far

config == <<IncludeRuntime, IncludeStep, Component, LogRequestsSeparately,
            HideRequestsFromMainLog, build, GeoIPDB, legacy>>

threshold == <<minimumLogLevel, levelWeight>>

timer == <<start, lastStep>>

files == <<dirOnDisk, mainLog, csvExists, csv, simpleCsv, nOpen>>

vars == <<minimumLogLevel, levelWeight, logDirExists, start, lastStep,
          IncludeRuntime, IncludeStep, Component, LogRequestsSeparately,
          HideRequestsFromMainLog, build, GeoIPDB, legacy, dirOnDisk, mainLog,
          csvExists, csv, simpleCsv, nOpen, proc, g, ncalls>>

\* a goroutine that is not inside the package.  The fields besides pc are
\* the arguments and locals of the call it runs (arg is the request as the
\* caller passed it, req the request as LogRequest has it, fOpen whether the
\* handle f of l is open, mt the value of a call of microTime or of a
\* variable that the goroutine holds before it uses it, hoff the offset of the handle os.Create returned,
\* -1 without one) and what the call has done so far: thr is the levelWeight
\* in force when the call was made, nlog, nhdr and ncsv count its
\* WriteString calls for entries, header lines and rows; fiber says that
\* LogRequestFromFiber made the call, rawIP is what net.ParseIP gave it and
\* lookup what became of its geo lookup; first says that the call found start
\* unset and set it, depth how deep the recursion of SetMinimumLogLevel went
IdleTask ==
  [pc |-> "idle", op |-> "none", async |-> FALSE, given |-> <<>>,
   level |-> <<>>, content |-> <<>>, arg |-> New, req |-> New, day |-> 0, tFormatted |-> <<>>,
   mt |-> Zero, runtime |-> Zero, step |-> Zero, entry |-> <<>>, row |-> <<>>, fOpen |-> FALSE,
   hoff |-> 0 - 1, thr |-> 0 - 1, nlog |-> 0, nhdr |-> 0, ncsv |-> 0,
   fiber |-> FALSE, rawIP |-> <<>>, lookup |-> "none", first |-> FALSE,
   depth |-> 0]

\* what every run starts from: init() has run, nothing has been logged, no
\* file of the days to come exists.  init() leaves logDirExists true when it
\* created the directory and false when it found it; the host may point
\* LogDir at another directory afterwards, which may or may not exist
InitState ==
  /\ levelWeight = LevelWeights(minimumLogLevel)
  /\ logDirExists \in BOOLEAN
  /\ dirOnDisk \in BOOLEAN
  /\ start = Zero
  /\ lastStep = Zero
  /\ mainLog = [d \in Days |-> <<>>]
  /\ csvExists = [d \in Days |-> FALSE]
  /\ csv = [d \in Days |-> <<>>]
  /\ simpleCsv = [d \in Days |-> <<>>]
  /\ nOpen = 0
  /\ proc = "running"
  /\ g = [t \in Tasks |-> IdleTask]
  /\ ncalls = 0

\* the package as its declarations leave it: no environment variable set
Init ==
  /\ minimumLogLevel = LevelNotice
  /\ IncludeRuntime = FALSE
  /\ IncludeStep = FALSE
  /\ Component = <<>>
  /\ LogRequestsSeparately = FALSE
  /\ HideRequestsFromMainLog = FALSE
  /\ build = "part_002"
  /\ GeoIPDB = "nil"
  /\ legacy = LegacyPackage(LevelWarning)
  /\ InitState


(* ------------------------------ helpers ------------------------------- *)

Running == proc = "running"

\* a host goroutine can make its next call
CanCall(t) ==
  /\ Running
  /\ ncalls < MaxCalls
  /\ g[t].pc \in {"idle", "done", "recovered"}

At(t, label) == Running /\ g[t].pc = label

\* log.Fatal(err) after a failed file operation: os.Exit(1) ends the process
Exit(t) ==
  /\ proc' = "exited"
  /\ g' = [g EXCEPT ![t] = [@ EXCEPT !.pc = "exit"]]

\* log.Fatal(err) after a write or a Close that failed
IOExit(t, rec) ==
  /\ proc' = "exited"
  /\ g' = [g EXCEPT ![t] = [rec EXCEPT !.pc = "io_exit"]]

\* log.Fatal(content), the last statement of Fatal
FatalExit(t, rec) ==
  /\ proc' = "exited"
  /\ g' = [g EXCEPT ![t] = [rec EXCEPT !.pc = "fatal_exit"]]

\* the goroutine goes on with its locals as in rec
Goto(t, rec, label) ==
  /\ proc' = proc
  /\ g' = [g EXCEPT ![t] = [rec EXCEPT !.pc = label]]

\* l returns to its caller: LogRequest and LogSimpleRequest go on with their
\* requests file, Fatal
\* with log.Fatal(content), Log and the other wrappers return
ReturnFromL(t, rec) ==
  IF rec.op = "Fatal" THEN FatalExit(t, rec)
  ELSE Goto(t, rec, IF rec.op = "LogRequest" THEN "r_csv"
                    ELSE IF rec.op \in {"LogSimpleRequest", "LegacyLogRequest"}
                         THEN "s_csv"
                    ELSE "done")

\* variant: a level check that lets through what is at or below the threshold
Allowed_Reversed(level) == ~(LevelWeights(level) > levelWeight)

\* variant: a level check that also rejects the threshold's own severity
Allowed_Strict(level) == ~(levelWeight >= LevelWeights(level))

\* the level check of l
Allowed(level) == ~(levelWeight > LevelWeights(level))

\* variant: a pre-check that holds back the threshold's own severity
WrapperEnabled_Strict(op) == ~(levelWeight >= LevelWeights(WrapperLevel(op)))

\* the pre-check of the wrappers Debug, Info, Warning and Error
WrapperEnabled(op) == ~(levelWeight > LevelWeights(WrapperLevel(op)))

\* variant: hiding takes effect without a separate file
ToMainLog_HideAlone == ~HideRequestsFromMainLog

\* whether LogRequest passes the request on to the main log
ToMainLog == (~LogRequestsSeparately) \/ (LogRequestsSeparately /\ ~HideRequestsFromMainLog)

\* variant: an entry without its level
ComposeEntry_NoLevel(rec) ==
  <<"[">> \o rec.tFormatted \o <<"]">> \o <<" ">> \o rec.content \o <<"\n">>

\* variant: the step is put before the runtime
ComposeEntry_StepFirst(rec) ==
  <<"[">> \o rec.tFormatted \o <<"]">>
    \o (IF IncludeStep
        THEN <<"[">> \o formatMicroTimeDuration(rec.step) \o <<"]">> ELSE <<>>)
    \o (IF IncludeRuntime
        THEN <<"[">> \o formatMicroTimeDuration(rec.runtime) \o <<"]">> ELSE <<>>)
    \o (IF Component # <<>> THEN <<"[">> \o Component \o <<"]">> ELSE <<>>)
    \o <<" ">> \o rec.level \o <<" ">> \o rec.content \o <<"\n">>

\* the entry l composes
ComposeEntry(rec) ==
  <<"[">> \o rec.tFormatted \o <<"]">>
    \o (IF IncludeRuntime
        THEN <<"[">> \o formatMicroTimeDuration(rec.runtime) \o <<"]">> ELSE <<>>)
    \o (IF IncludeStep
        THEN <<"[">> \o formatMicroTimeDuration(rec.step) \o <<"]">> ELSE <<>>)
    \o (IF Component # <<>> THEN <<"[">> \o Component \o <<"]">> ELSE <<>>)
    \o <<" ">> \o rec.level \o <<" ">> \o rec.content \o <<"\n">>

\* the row LogRequest writes for a request
ToCSV(r) == IF build = "part_002" THEN ToCSVGeo(r) ELSE ToCSVPlain(r)

(* ------------------------------ the host ------------------------------ *)

\* the instants the wall clock is read at, in microseconds: two of them are
\* the same or at least 2 us apart, which is more than the 2^-22 s between
\* two values of microTime, so that a difference shows in a printed duration
Times == {2 * k - 1 : k \in 1..MaxTime}

\* what time.Now() can return: the wall clock in microseconds, and the
\* local calendar day.  The wall clock is the system's, which can be set,
\* so a reading says nothing about the next
Readings == Times \X Days

\* the readings as microTime tells them apart: it takes the instant in UTC,
\* whatever the local day is
Instants == Times \X {1}

\* variant: a registry without NOTICE
IsKey_NoNotice(level) == \E key \in Levels \ {LevelNotice} : key = level

\* for key := range LevelWeights { if key == level .. }: level is a key
IsKey(level) == \E key \in Levels : key = level

\* variant: the name of the threshold is assigned, its weight is not
SetLevelCall_StaleWeight(x, d) ==
  LET level == ToUpper(x)
  IN  IF IsKey(level)
      THEN [level |-> level, weight |-> levelWeight, depth |-> d, returned |-> TRUE]
      ELSE [level |-> LevelNotice, weight |-> levelWeight, depth |-> d + 1,
            returned |-> TRUE]

RECURSIVE SetLevelCall(_, _)
\* the call SetMinimumLogLevel(x) at recursion depth d: what it assigns to
\* minimumLogLevel and levelWeight, the depth the recursion reached, and
\* whether it returned; it is followed down to depth MaxDepth
SetLevelCall(x, d) ==
  LET level == ToUpper(x)
  IN  IF IsKey(level)
      THEN [level |-> level, weight |-> LevelWeights(level), depth |-> d,
            returned |-> TRUE]
      ELSE IF d >= MaxDepth
      THEN [level |-> minimumLogLevel, weight |-> levelWeight, depth |-> d,
            returned |-> FALSE]
      ELSE SetLevelCall(LevelNotice, d + 1)

\* SetMinimumLogLevel(x) called by goroutine t, its recursive calls included;
\* a recursion without end exhausts the stack, which ends the process
SetMinimumLogLevel(t, x) ==
  LET res == SetLevelCall(x, 0)
  IN  /\ CanCall(t)
      /\ ncalls' = ncalls + 1
      /\ minimumLogLevel' = res.level
      /\ levelWeight' = res.weight
      /\ proc' = IF res.returned THEN proc ELSE "crashed"
      /\ g' = [g EXCEPT ![t] = [IdleTask EXCEPT
                                  !.pc = IF res.returned THEN "done" ELSE "overflow",
                                  !.op = "SetMinimumLogLevel", !.level = x,
                                  !.thr = levelWeight, !.depth = res.depth]]
      /\ UNCHANGED <<logDirExists, timer, config, files>>

\* Log(level, content) and LogAsync(level, content): l runs in goroutine t
CallLog(t, level, content, async) ==
  /\ CanCall(t)
  /\ ncalls' = ncalls + 1
  /\ g' = [g EXCEPT ![t] = [IdleTask EXCEPT !.pc = "l_gate", !.op = "Log",
                              !.thr = levelWeight, !.async = async,
                              !.given = level, !.level = level,
                              !.content = content]]
  /\ UNCHANGED <<threshold, logDirExists, timer, config, files, proc>>

\* Debug, Info, Warning, Error and their Async variants
CallWrapper(t, op, content, async) ==
  /\ CanCall(t)
  /\ ncalls' = ncalls + 1
  /\ g' = [g EXCEPT ![t] = [IdleTask EXCEPT !.pc = "w_check", !.op = op,
                              !.thr = levelWeight, !.async = async, !.level = WrapperLevel(op),
                              !.content = content]]
  /\ UNCHANGED <<threshold, logDirExists, timer, config, files, proc>>

\* Fatal(content) and FatalAsync(content)
CallFatal(t, content, async) ==
  /\ CanCall(t)
  /\ ncalls' = ncalls + 1
  /\ g' = [g EXCEPT ![t] = [IdleTask EXCEPT !.pc = "l_gate", !.op = "Fatal",
                              !.thr = levelWeight, !.async = async, !.level = LevelFatal,
                              !.content = content]]
  /\ UNCHANGED <<threshold, logDirExists, timer, config, files, proc>>

\* LogRequest(req)
CallLogRequest(t, req) ==
  /\ CanCall(t)
  /\ ncalls' = ncalls + 1
  /\ g' = [g EXCEPT ![t] = [IdleTask EXCEPT !.pc = "r_main", !.op = "LogRequest",
                              !.thr = levelWeight, !.arg = req, !.req = req]]
  /\ UNCHANGED <<threshold, logDirExists, timer, config, files, proc>>

\* LogRequestFromFiber(c) up to the geo lookup: the request is made from
\* the context (the fields set after the lookup are set here, as they do
\* not depend on it), the client address is parsed
CallLogRequestFromFiber(t, c) ==
  LET ip == IF Len(c.IPs) > 0 THEN c.IPs[1] ELSE c.IP
      req == [New EXCEPT !.ConnectionTime = c.ConnTime, !.Method = c.Method,
                         !.Path = c.Path, !.IP = ip,
                         !.Address = c.RemoteAddr, !.UserAgent = c.UserAgent,
                         !.Referer = c.Referer, !.ConnectionID = c.ConnID,
                         !.ConnectionSeq = c.ConnRequestNum,
                         !.RequestedHost = c.Host]
  IN  /\ CanCall(t)
      /\ ncalls' = ncalls + 1
      /\ g' = [g EXCEPT ![t] = [IdleTask EXCEPT !.pc = "f_geo",
                                  !.op = "LogRequestFromFiber", !.fiber = TRUE,
                                  !.req = req, !.rawIP = ParseIP(ip)]]
      /\ UNCHANGED <<threshold, logDirExists, timer, config, files, proc>>

\* variant: the lookup is made whether or not a database is configured
FiberGeo_AlwaysLookup(t, res) ==
  /\ At(t, "f_geo")
  /\ g[t].rawIP = <<>> => res = "error"
  /\ IF res = "error"
     THEN /\ proc' = "exited"
          /\ g' = [g EXCEPT ![t] = [@ EXCEPT !.lookup = "error", !.pc = "exit"]]
     ELSE LET req == WithGeo(g[t].req, GeoRecord(res))
          IN  Goto(t, [g[t] EXCEPT !.lookup = res, !.op = "LogRequest",
                                   !.thr = levelWeight, !.req = req,
                                   !.arg = req], "r_main")
  /\ UNCHANGED <<threshold, logDirExists, timer, config, files, ncalls>>

\* if GeoIPDB != nil: GeoIPDB.City(rawIP) returns res, an error for a nil
\* address; log.Fatal(err) on an error, the geo fields from the record
\* otherwise.  Then LogRequest(req)
FiberGeo(t, res) ==
  /\ At(t, "f_geo")
  /\ IF GeoIPDB = "nil"
     THEN /\ res = "bare"
          /\ Goto(t, [g[t] EXCEPT !.lookup = "skipped", !.op = "LogRequest",
                                  !.thr = levelWeight, !.arg = g[t].req], "r_main")
     ELSE /\ g[t].rawIP = <<>> => res = "error"
          /\ IF res = "error"
             THEN /\ proc' = "exited"
                  /\ g' = [g EXCEPT ![t] = [@ EXCEPT !.lookup = "error",
                                                    !.pc = "exit"]]
             ELSE LET req == WithGeo(g[t].req, GeoRecord(res))
                  IN  Goto(t, [g[t] EXCEPT !.lookup = res, !.op = "LogRequest",
                                           !.thr = levelWeight, !.req = req,
                                           !.arg = req], "r_main")
  /\ UNCHANGED <<threshold, logDirExists, timer, config, files, ncalls>>

\* a panic leaves a goroutine that does not recover: the process dies
Crash(t) ==
  /\ At(t, "panic")
  /\ proc' = "crashed"
  /\ UNCHANGED <<threshold, logDirExists, timer, config, files, g, ncalls>>

\* the caller of a synchronous call recovers from the panic
Recover(t) ==
  /\ At(t, "panic")
  /\ ~g[t].async
  /\ Goto(t, g[t], "recovered")
  /\ UNCHANGED <<threshold, logDirExists, timer, config, files, ncalls>>

(* ----------------------------- the wrappers --------------------------- *)

\* the pre-check of Debug, Info, Warning, Error
WrapperCheck(t) ==
  /\ At(t, "w_check")
  /\ Goto(t, g[t], IF WrapperEnabled(g[t].op) THEN "l_gate" ELSE "done")
  /\ UNCHANGED <<threshold, logDirExists, timer, config, files, ncalls>>

(* --------------------------------- l ---------------------------------- *)

\* variant: the timer is started before the level is checked
LGate_TimerFirst(t) ==
  /\ At(t, "l_gate")
  /\ start' = IF start = Zero THEN microTime(<<1, 1>>) ELSE start
  /\ lastStep' = microTime(<<1, 1>>)
  /\ IF g[t].level \notin Levels THEN ReturnFromL(t, g[t])
     ELSE IF ~Allowed(g[t].level) THEN ReturnFromL(t, g[t])
     ELSE Goto(t, g[t], "l_dir")
  /\ UNCHANGED <<threshold, logDirExists, config, files, ncalls>>

\* the two checks l starts with: the level is a key of LevelWeights, and it
\* is not below the threshold
LGate(t) ==
  /\ At(t, "l_gate")
  /\ IF g[t].level \notin Levels THEN ReturnFromL(t, g[t])
     ELSE IF ~Allowed(g[t].level) THEN ReturnFromL(t, g[t])
     ELSE Goto(t, g[t], "l_dir")
  /\ UNCHANGED <<threshold, logDirExists, timer, config, files, ncalls>>

\* if !logDirExists: os.Stat(LogDir)
LDir(t) ==
  /\ At(t, "l_dir")
  /\ Goto(t, g[t], IF ~logDirExists /\ ~dirOnDisk THEN "l_mkdir" ELSE "l_open")
  /\ UNCHANGED <<threshold, logDirExists, timer, config, files, ncalls>>

\* os.Mkdir(LogDir, 0755), which fails when the directory exists by now
LMkdir(t) ==
  /\ At(t, "l_mkdir")
  /\ IF dirOnDisk
     THEN Exit(t) /\ UNCHANGED dirOnDisk
     ELSE /\ dirOnDisk' = TRUE
          /\ Goto(t, g[t], "l_mkdir_st")
  /\ UNCHANGED <<threshold, logDirExists, timer, config, mainLog, csvExists, csv,
                 nOpen, ncalls, simpleCsv>>

\* logDirExists = true, after os.Mkdir has returned
LMkdirStore(t) ==
  /\ At(t, "l_mkdir_st")
  /\ logDirExists' = TRUE
  /\ Goto(t, g[t], "l_open")
  /\ UNCHANGED <<threshold, timer, config, files, ncalls>>

\* t := time.Now() reads r; date, tFormatted, os.OpenFile(LogDir/date.log)
LOpen(t, r) ==
  /\ At(t, "l_open")
  /\ IF ~dirOnDisk
     THEN Exit(t) /\ nOpen' = nOpen
     ELSE /\ nOpen' = nOpen + 1
          /\ Goto(t, [g[t] EXCEPT !.fOpen = TRUE, !.day = r[2],
                                  !.tFormatted = FormatTime(r[2], r[1])], "l_chk")
  /\ UNCHANGED <<threshold, logDirExists, timer, config, dirOnDisk, mainLog,
                 csvExists, csv, ncalls, simpleCsv>>

\* if start == 0
LChk(t) ==
  /\ At(t, "l_chk")
  /\ Goto(t, g[t], IF start = Zero THEN "l_init" ELSE "l_rt")
  /\ UNCHANGED <<threshold, logDirExists, timer, config, files, ncalls>>

\* start = microTime(): the call.  A call is made before the variables of
\* its statement are read or written, and other goroutines run in between
LInitNow(t, r) ==
  /\ At(t, "l_init")
  /\ Goto(t, [g[t] EXCEPT !.mt = microTime(r)], "l_init_st")
  /\ UNCHANGED <<threshold, logDirExists, timer, config, files, ncalls>>

\* start = microTime(): the store
LInitStart(t) ==
  /\ At(t, "l_init_st")
  /\ start' = g[t].mt
  /\ Goto(t, [g[t] EXCEPT !.first = TRUE], "l_init_ld")
  /\ UNCHANGED <<threshold, logDirExists, lastStep, config, files, ncalls>>

\* lastStep = start: the load of start
LInitLoad(t) ==
  /\ At(t, "l_init_ld")
  /\ Goto(t, [g[t] EXCEPT !.mt = start], "l_init_ls")
  /\ UNCHANGED <<threshold, logDirExists, timer, config, files, ncalls>>

\* lastStep = start: the store to lastStep
LInitLast(t) ==
  /\ At(t, "l_init_ls")
  /\ lastStep' = g[t].mt
  /\ Goto(t, [g[t] EXCEPT !.mt = Zero], "l_rt")
  /\ UNCHANGED <<threshold, logDirExists, start, config, files, ncalls>>

\* runtime := microTime() - start: the call
LRuntimeNow(t, r) ==
  /\ At(t, "l_rt")
  /\ Goto(t, [g[t] EXCEPT !.mt = microTime(r)], "l_rt_sub")
  /\ UNCHANGED <<threshold, logDirExists, timer, config, files, ncalls>>

\* runtime := microTime() - start: the load of start and the subtraction
LRuntime(t) ==
  /\ At(t, "l_rt_sub")
  /\ Goto(t, [g[t] EXCEPT !.runtime = Minus(g[t].mt, start)], "l_step")
  /\ UNCHANGED <<threshold, logDirExists, timer, config, files, ncalls>>

\* step := microTime() - lastStep: the call
LStepNow(t, r) ==
  /\ At(t, "l_step")
  /\ Goto(t, [g[t] EXCEPT !.mt = microTime(r)], "l_step_sub")
  /\ UNCHANGED <<threshold, logDirExists, timer, config, files, ncalls>>

\* step := microTime() - lastStep: the load of lastStep and the subtraction
LStep(t) ==
  /\ At(t, "l_step_sub")
  /\ Goto(t, [g[t] EXCEPT !.step = Minus(g[t].mt, lastStep)], "l_last")
  /\ UNCHANGED <<threshold, logDirExists, timer, config, files, ncalls>>

\* lastStep = microTime(): the call
LLastNow(t, r) ==
  /\ At(t, "l_last")
  /\ Goto(t, [g[t] EXCEPT !.mt = microTime(r)], "l_last_st")
  /\ UNCHANGED <<threshold, logDirExists, timer, config, files, ncalls>>

\* lastStep = microTime(): the store
LLast(t) ==
  /\ At(t, "l_last_st")
  /\ lastStep' = g[t].mt
  /\ Goto(t, [g[t] EXCEPT !.mt = Zero], "l_write")
  /\ UNCHANGED <<threshold, logDirExists, start, config, files, ncalls>>

\* the entry is composed and written: f.WriteString(entry); when the write
\* fails, log.Fatal(err)
LWrite(t) ==
  /\ At(t, "l_write")
  /\ \/ LET entry == ComposeEntry(g[t])
        IN  /\ mainLog' = [mainLog EXCEPT ![g[t].day] = @ \o entry]
            /\ Goto(t, [g[t] EXCEPT !.entry = entry, !.nlog = @ + 1], "l_close")
     \/ IOExit(t, g[t]) /\ UNCHANGED mainLog
  /\ UNCHANGED <<threshold, logDirExists, timer, config, dirOnDisk, csvExists,
                 csv, nOpen, ncalls, simpleCsv>>

\* variant: the handle is left open
LClose_Skipped(t) ==
  /\ At(t, "l_close")
  /\ Goto(t, g[t], "l_end")
  /\ UNCHANGED <<threshold, logDirExists, timer, config, files, ncalls>>

\* f.Close(); when it fails, log.Fatal(err)
LClose(t) ==
  /\ At(t, "l_close")
  /\ nOpen' = nOpen - 1
  /\ \/ Goto(t, [g[t] EXCEPT !.fOpen = FALSE], "l_end")
     \/ IOExit(t, [g[t] EXCEPT !.fOpen = FALSE])
  /\ UNCHANGED <<threshold, logDirExists, timer, config, dirOnDisk, mainLog,
                 csvExists, csv, ncalls, simpleCsv>>

\* if level == LevelFatal { panic(content) }, else l returns; the l of the
\* oldest logger.go has no panic
LEnd(t) ==
  /\ At(t, "l_end")
  /\ LET rec == [g[t] EXCEPT !.runtime = Zero, !.step = Zero]
     IN  IF g[t].level = LevelFatal /\ legacy.logger # "oldest"
         THEN Goto(t, rec, "panic")
         ELSE ReturnFromL(t, rec)
  /\ UNCHANGED <<threshold, logDirExists, timer, config, files, ncalls>>


(* ----------------------------- LogRequest ----------------------------- *)

\* the request goes to the main log, as Log(LevelInfo, summary), unless it is
\* logged separately and hidden
RMain(t) ==
  /\ At(t, "r_main")
  /\ IF ToMainLog
     THEN Goto(t, [g[t] EXCEPT !.level = LevelInfo,
                               !.content = RequestSummary(g[t].req)], "l_gate")
     ELSE Goto(t, g[t], "r_csv")
  /\ UNCHANGED <<threshold, logDirExists, timer, config, files, ncalls>>

\* variant: the separate file is written only for requests hidden from the
\* main log
RCsv_OnlyHidden(t, r) ==
  /\ At(t, "r_csv")
  /\ IF ~(LogRequestsSeparately /\ HideRequestsFromMainLog)
     THEN r = <<1, 1>> /\ Goto(t, g[t], "done")
     ELSE /\ Goto(t, [g[t] EXCEPT !.day = r[2]],
                  IF build = "part_002" /\ ~(dirOnDisk /\ csvExists[r[2]])
                  THEN "r_create" ELSE "r_open")
  /\ UNCHANGED <<threshold, logDirExists, timer, config, files, ncalls>>

\* if LogRequestsSeparately: the date is read; src/unnamed/part_002 looks
\* whether the day's file exists, src/request.go opens it at once
RCsv(t, r) ==
  /\ At(t, "r_csv")
  /\ IF ~LogRequestsSeparately
     THEN r = <<1, 1>> /\ Goto(t, g[t], "done")
     ELSE /\ Goto(t, [g[t] EXCEPT !.day = r[2]],
                  IF build = "part_002" /\ ~(dirOnDisk /\ csvExists[r[2]])
                  THEN "r_create" ELSE "r_open")
  /\ UNCHANGED <<threshold, logDirExists, timer, config, files, ncalls>>

\* os.Create(filename): the file is created, or emptied if it exists by now
RCreate(t) ==
  /\ At(t, "r_create")
  /\ IF ~dirOnDisk
     THEN Exit(t) /\ UNCHANGED <<csvExists, csv, nOpen>>
     ELSE /\ csvExists' = [csvExists EXCEPT ![g[t].day] = TRUE]
          /\ csv' = [csv EXCEPT ![g[t].day] = <<>>]
          /\ nOpen' = nOpen + 1
          /\ Goto(t, [g[t] EXCEPT !.hoff = 0], "r_hdr")
  /\ UNCHANGED <<threshold, logDirExists, timer, config, dirOnDisk, mainLog, ncalls,
                 simpleCsv>>

\* variant: the header is written through a handle that appends
RHeader_Append(t) ==
  /\ At(t, "r_hdr")
  /\ \/ /\ csv' = [csv EXCEPT ![g[t].day] = @ \o HeaderLine]
        /\ Goto(t, [g[t] EXCEPT !.hoff = @ + Len(HeaderLine), !.nhdr = @ + 1], "r_hclose")
     \/ IOExit(t, g[t]) /\ UNCHANGED csv
  /\ UNCHANGED <<threshold, logDirExists, timer, config, dirOnDisk, mainLog,
                 csvExists, nOpen, ncalls, simpleCsv>>

\* file.WriteString(header), at the offset of the handle os.Create returned;
\* when the write fails, log.Fatal(err)
RHeader(t) ==
  /\ At(t, "r_hdr")
  /\ \/ /\ csv' = [csv EXCEPT ![g[t].day] = WriteAt(@, g[t].hoff, HeaderLine)]
        /\ Goto(t, [g[t] EXCEPT !.hoff = @ + Len(HeaderLine), !.nhdr = @ + 1], "r_hclose")
     \/ IOExit(t, g[t]) /\ UNCHANGED csv
  /\ UNCHANGED <<threshold, logDirExists, timer, config, dirOnDisk, mainLog,
                 csvExists, nOpen, ncalls, simpleCsv>>

\* file.Close(); when it fails, log.Fatal(err)
RHeaderClose(t) ==
  /\ At(t, "r_hclose")
  /\ nOpen' = nOpen - 1
  /\ \/ Goto(t, [g[t] EXCEPT !.hoff = 0 - 1], "r_open")
     \/ IOExit(t, g[t])
  /\ UNCHANGED <<threshold, logDirExists, timer, config, dirOnDisk, mainLog,
                 csvExists, csv, ncalls, simpleCsv>>

\* os.OpenFile(filename, O_APPEND|O_CREATE|O_WRONLY)
ROpen(t) ==
  /\ At(t, "r_open")
  /\ IF ~dirOnDisk
     THEN Exit(t) /\ UNCHANGED <<csvExists, nOpen>>
     ELSE /\ csvExists' = [csvExists EXCEPT ![g[t].day] = TRUE]
          /\ nOpen' = nOpen + 1
          /\ Goto(t, g[t], "r_write")
  /\ UNCHANGED <<threshold, logDirExists, timer, config, dirOnDisk, mainLog,
                 csv, ncalls, simpleCsv>>

\* the commas of the user agent are replaced, the row is written; the handle
\* is not closed; when the write fails, log.Fatal(err)
RWrite(t) ==
  /\ At(t, "r_write")
  /\ LET req == [g[t].req EXCEPT !.UserAgent = ReplaceAll(@, ",", ";")]
         entry == ToCSV(req)
     IN  \/ /\ csv' = [csv EXCEPT ![g[t].day] = @ \o entry]
            /\ Goto(t, [g[t] EXCEPT !.req = req, !.row = entry, !.ncsv = @ + 1], "done")
         \/ IOExit(t, [g[t] EXCEPT !.req = req]) /\ UNCHANGED csv
  /\ UNCHANGED <<threshold, logDirExists, timer, config, dirOnDisk, mainLog,
                 csvExists, nOpen, ncalls, simpleCsv>>

(* --------------------------- LogSimpleRequest ------------------------- *)

\* the row LogSimpleRequest writes
SimpleRow(tFormatted, method, path, userAgent, ip) ==
  tFormatted \o <<",">> \o method \o <<",">> \o path \o <<",">>
    \o userAgent \o <<",">> \o ip \o <<"\n">>

\* LogSimpleRequest(method, path, userAgent, ip); the four arguments are
\* kept in the fields of a request
CallLogSimpleRequest(t, method, path, userAgent, ip) ==
  /\ CanCall(t)
  /\ ncalls' = ncalls + 1
  /\ LET req == [New EXCEPT !.Method = method, !.Path = path,
                            !.UserAgent = userAgent, !.IP = ip]
     IN  g' = [g EXCEPT ![t] = [IdleTask EXCEPT !.pc = "s_main",
                                  !.op = "LogSimpleRequest", !.thr = levelWeight,
                                  !.arg = req, !.req = req]]
  /\ UNCHANGED <<threshold, logDirExists, timer, config, files, proc>>

\* if !LogRequestsSeparately || (LogRequestsSeparately &&
\* !HideRequestsFromMainLog): Log(LevelInfo, summary), which is the Log of
\* the logger.go the function belongs to
SMain(t) ==
  /\ At(t, "s_main")
  /\ IF ToMainLog
     THEN Goto(t, [g[t] EXCEPT !.level = LevelInfo,
                               !.content = RequestSummary(g[t].req)],
               IF g[t].op = "LegacyLogRequest" THEN "ll_gate" ELSE "l_gate")
     ELSE Goto(t, g[t], "s_csv")
  /\ UNCHANGED <<threshold, logDirExists, timer, config, files, ncalls>>

\* if LogRequestsSeparately: t := time.Now() reads r; date, tFormatted
SCsv(t, r) ==
  /\ At(t, "s_csv")
  /\ IF ~LogRequestsSeparately
     THEN r = <<1, 1>> /\ Goto(t, g[t], "done")
     ELSE Goto(t, [g[t] EXCEPT !.day = r[2],
                               !.tFormatted = FormatTime(r[2], r[1])], "s_open")
  /\ UNCHANGED <<threshold, logDirExists, timer, config, files, ncalls>>

\* os.OpenFile(.., O_APPEND|O_CREATE|O_WRONLY) on
\* LogDir/requests-simple-date.csv, and on LogDir/requests-date.csv for the
\* LogRequest of part_001
SOpen(t) ==
  /\ At(t, "s_open")
  /\ IF ~dirOnDisk
     THEN Exit(t) /\ UNCHANGED <<nOpen, csvExists>>
     ELSE /\ nOpen' = nOpen + 1
          /\ csvExists' = IF g[t].op = "LegacyLogRequest"
                          THEN [csvExists EXCEPT ![g[t].day] = TRUE]
                          ELSE csvExists
          /\ Goto(t, g[t], "s_write")
  /\ UNCHANGED <<threshold, logDirExists, timer, config, dirOnDisk, mainLog,
                 csv, simpleCsv, ncalls>>

\* the commas of the user agent are replaced, the row is written; the handle
\* is not closed; when the write fails, log.Fatal(err)
SWrite(t) ==
  /\ At(t, "s_write")
  /\ LET req == [g[t].req EXCEPT !.UserAgent = ReplaceAll(@, ",", ";")]
         entry == SimpleRow(g[t].tFormatted, req.Method, req.Path,
                            req.UserAgent, req.IP)
     IN  \/ /\ IF g[t].op = "LegacyLogRequest"
               THEN /\ csv' = [csv EXCEPT ![g[t].day] = @ \o entry]
                    /\ UNCHANGED simpleCsv
               ELSE /\ simpleCsv' = [simpleCsv EXCEPT ![g[t].day] = @ \o entry]
                    /\ UNCHANGED csv
            /\ Goto(t, [g[t] EXCEPT !.req = req, !.row = entry, !.ncsv = @ + 1], "done")
         \/ IOExit(t, g[t]) /\ UNCHANGED <<csv, simpleCsv>>
  /\ UNCHANGED <<threshold, logDirExists, timer, config, dirOnDisk, mainLog,
                 csvExists, nOpen, ncalls>>

(* ------------------- the older logger.go: operations ------------------ *)

\* what the older logger.go leaves alone: the variables of the newer one
\* that it does not declare
legacyFrame == <<threshold, IncludeRuntime, IncludeStep, Component,
                 LogRequestsSeparately, HideRequestsFromMainLog, build, GeoIPDB>>

\* SetMinimumLogLevel(level) of the older logger.go: the level is looked up
\* and determineLogLevel() is called, which stores the four booleans one
\* after the other; MinimumLogLevel is not assigned.  The oldest logger.go
\* has no such function
LegacySetMinimumLogLevel(t, level) ==
  /\ CanCall(t)
  /\ legacy.logger = "older"
  /\ ncalls' = ncalls + 1
  /\ g' = [g EXCEPT ![t] = [IdleTask EXCEPT
              !.pc = IF /\ in_array(level, <<LevelDebug, LevelInfo, LevelWarning,
                                             LevelError, LevelFatal>>)
                        /\ legacy.MinimumLogLevel \in LegacyLevels
                     THEN "ls_debug" ELSE "done",
              !.op = "SetMinimumLogLevel", !.level = level]]
  /\ UNCHANGED <<legacyFrame, legacy, logDirExists, timer, files, proc>>

\* determineLogLevel: the store of debug
LegacyStoreDebug(t) ==
  /\ At(t, "ls_debug")
  /\ legacy' = [legacy EXCEPT !.debug = determineLogLevel(legacy).debug]
  /\ Goto(t, g[t], "ls_info")
  /\ UNCHANGED <<legacyFrame, logDirExists, timer, files, ncalls>>

\* determineLogLevel: the store of info
LegacyStoreInfo(t) ==
  /\ At(t, "ls_info")
  /\ legacy' = [legacy EXCEPT !.info = determineLogLevel(legacy).info]
  /\ Goto(t, g[t], "ls_warning")
  /\ UNCHANGED <<legacyFrame, logDirExists, timer, files, ncalls>>

\* determineLogLevel: the store of warning
LegacyStoreWarning(t) ==
  /\ At(t, "ls_warning")
  /\ legacy' = [legacy EXCEPT !.warning = determineLogLevel(legacy).warning]
  /\ Goto(t, g[t], "ls_error")
  /\ UNCHANGED <<legacyFrame, logDirExists, timer, files, ncalls>>

\* determineLogLevel: the store of error, after which SetMinimumLogLevel
\* returns
LegacyStoreError(t) ==
  /\ At(t, "ls_error")
  /\ legacy' = [legacy EXCEPT !.error = determineLogLevel(legacy).error]
  /\ Goto(t, g[t], "done")
  /\ UNCHANGED <<legacyFrame, logDirExists, timer, files, ncalls>>

\* the steps of goroutine t inside SetMinimumLogLevel of the older logger.go
LegacySetSteps(t) ==
  \/ LegacyStoreDebug(t)
  \/ LegacyStoreInfo(t)
  \/ LegacyStoreWarning(t)
  \/ LegacyStoreError(t)

\* level arguments of Log of part_001
LegacyLogInputs == { LevelError, LevelDebug, <<"T","R","A","C","E">>, <<>> }

\* the level l of part_001 writes: an empty or unknown level becomes INFO
LegacyCoerce(level) ==
  IF level = <<>> THEN LevelInfo
  ELSE IF level # LevelDebug /\ level # LevelInfo /\ level # LevelWarning
          /\ level # LevelError /\ level # LevelFatal THEN LevelInfo
  ELSE level

\* Log(level, content) of part_001 and, with async, LogAsync(level, content),
\* which is go l(level, content): l is called whatever the threshold
LegacyLog(t, level, content, async) ==
  /\ CanCall(t)
  /\ ncalls' = ncalls + 1
  /\ g' = [g EXCEPT ![t] = [IdleTask EXCEPT !.pc = "ll_gate", !.op = "Log",
                              !.async = async, !.given = level,
                              !.level = level, !.content = content]]
  /\ UNCHANGED <<legacyFrame, legacy, logDirExists, timer, files, proc>>

\* Debug, Info, Warning, Error of part_001 and, with async, their Async
\* forms: go Debug(content) and so on in the older logger.go, go
\* l(LevelDebug, content) and so on in the oldest
CallLegacyWrapper(t, op, content, async) ==
  /\ CanCall(t)
  /\ ncalls' = ncalls + 1
  /\ g' = [g EXCEPT ![t] = [IdleTask EXCEPT !.pc = "lw_check", !.op = op,
                              !.async = async, !.level = WrapperLevel(op),
                              !.content = content]]
  /\ UNCHANGED <<legacyFrame, legacy, logDirExists, timer, files, proc>>

\* Fatal(content) of part_001, l(LevelFatal, content), and, with async,
\* FatalAsync(content): go Fatal(content), go l(LevelFatal, content)
LegacyFatal(t, content, async) ==
  /\ CanCall(t)
  /\ ncalls' = ncalls + 1
  /\ g' = [g EXCEPT ![t] = [IdleTask EXCEPT !.pc = "ll_gate", !.op = "LegacyFatal",
                              !.async = async, !.level = LevelFatal,
                              !.content = content]]
  /\ UNCHANGED <<legacyFrame, legacy, logDirExists, timer, files, proc>>

\* LogRequest(method, path, userAgent, ip) of part_001; the four arguments
\* are kept in the fields of a request.  It goes on as LogSimpleRequest
\* does, with the Log of its own logger.go and the file requests-date.csv
CallLegacyLogRequest(t, method, path, userAgent, ip) ==
  /\ CanCall(t)
  /\ ncalls' = ncalls + 1
  /\ LET req == [New EXCEPT !.Method = method, !.Path = path,
                            !.UserAgent = userAgent, !.IP = ip]
     IN  g' = [g EXCEPT ![t] = [IdleTask EXCEPT !.pc = "s_main",
                                  !.op = "LegacyLogRequest", !.arg = req,
                                  !.req = req]]
  /\ UNCHANGED <<legacyFrame, legacy, logDirExists, timer, files, proc>>

\* what a wrapper starts with: in the older logger.go l is called when the
\* boolean of the severity is set, in the oldest l is called
LegacyWrapper(t) ==
  /\ At(t, "lw_check")
  /\ Goto(t, g[t], IF legacy.logger = "oldest" \/ LegacyFlag(legacy, g[t].op)
                   THEN "ll_gate" ELSE "done")
  /\ UNCHANGED <<legacyFrame, legacy, logDirExists, timer, files, ncalls>>

\* what l of part_001 starts with: no level is rejected and none is compared
\* with a threshold.  From the directory check on it runs as the l of the
\* newer one does, Component being empty
LegacyGate(t) ==
  /\ At(t, "ll_gate")
  /\ Goto(t, [g[t] EXCEPT !.level = LegacyCoerce(@)], "l_dir")
  /\ UNCHANGED <<legacyFrame, legacy, logDirExists, timer, files, ncalls>>

(* --------------------------- specifications --------------------------- *)

\* the steps of l, in any goroutine
LSteps ==
  \/ \E t \in Tasks : LGate(t)
  \/ \E t \in Tasks : LDir(t)
  \/ \E t \in Tasks : LMkdir(t)
  \/ \E t \in Tasks : LMkdirStore(t)
  \/ \E t \in Tasks, r \in Readings : LOpen(t, r)
  \/ \E t \in Tasks : LChk(t)
  \/ \E t \in Tasks, r \in Instants : LInitNow(t, r)
  \/ \E t \in Tasks : LInitStart(t)
  \/ \E t \in Tasks : LInitLoad(t)
  \/ \E t \in Tasks : LInitLast(t)
  \/ \E t \in Tasks, r \in Instants : LRuntimeNow(t, r)
  \/ \E t \in Tasks : LRuntime(t)
  \/ \E t \in Tasks, r \in Instants : LStepNow(t, r)
  \/ \E t \in Tasks : LStep(t)
  \/ \E t \in Tasks, r \in Instants : LLastNow(t, r)
  \/ \E t \in Tasks : LLast(t)
  \/ \E t \in Tasks : LWrite(t)
  \/ \E t \in Tasks : LClose(t)
  \/ \E t \in Tasks : LEnd(t)

\* what follows a call of the engine: the wrappers' pre-check and the panic
EngineSteps ==
  \/ \E t \in Tasks : WrapperCheck(t)
  \/ \E t \in Tasks : Crash(t)
  \/ \E t \in Tasks : Recover(t)
  \/ LSteps

\* the steps of LogRequest, in any goroutine
RequestSteps ==
  \/ \E t \in Tasks : RMain(t)
  \/ \E t \in Tasks, r \in Readings : RCsv(t, r)
  \/ \E t \in Tasks : RCreate(t)
  \/ \E t \in Tasks : RHeader(t)
  \/ \E t \in Tasks : RHeaderClose(t)
  \/ \E t \in Tasks : ROpen(t)
  \/ \E t \in Tasks : RWrite(t)

\* the emitting operations, called in goroutine t
EngineCalls(t, async) ==
  \/ \E level \in LogLevelInputs, content \in Msgs : CallLog(t, level, content, async)
  \/ \E op \in Wrappers, content \in Msgs : CallWrapper(t, op, content, async)
  \/ \E content \in Msgs : CallFatal(t, content, async)

\* the engine, called from one goroutine of the host, one call after the other
Next ==
  \/ \E x \in SetLevelInputs : SetMinimumLogLevel(1, x)
  \/ EngineCalls(1, FALSE)
  \/ EngineSteps

Spec == Init /\ [][Next]_vars

\* the request logger under every configuration: either build, any flags,
\* any threshold init() can leave
InitReq ==
  /\ minimumLogLevel \in Levels
  /\ IncludeRuntime = FALSE
  /\ IncludeStep = FALSE
  /\ Component = <<>>
  /\ LogRequestsSeparately \in BOOLEAN
  /\ HideRequestsFromMainLog \in BOOLEAN
  /\ build \in {"part_002", "request.go"}
  /\ GeoIPDB = "nil"
  /\ legacy = LegacyPackage(LevelWarning)
  /\ InitState

\* LogRequest, called from one goroutine of the host
NextReq ==
  \/ \E req \in Requests : CallLogRequest(1, req)
  \/ RequestSteps
  \/ LSteps

SpecReq == InitReq /\ [][NextReq]_vars

\* the user agents LogSimpleRequest is given
SimpleAgents == { <<"u","a">>, <<"a",",","b">> }

\* LogSimpleRequest, called from one goroutine of the host
NextSimple ==
  \/ \E userAgent \in SimpleAgents :
       CallLogSimpleRequest(1, <<"G","E","T">>, <<"/">>, userAgent, <<":",":","1">>)
  \/ \E t \in Tasks : SMain(t)
  \/ \E t \in Tasks, r \in Readings : SCsv(t, r)
  \/ \E t \in Tasks : SOpen(t)
  \/ \E t \in Tasks : SWrite(t)
  \/ LSteps

SpecSimple == InitReq /\ [][NextSimple]_vars

\* the request logger of src/unnamed/part_002 writing to the separate file
\* only, its directory in place
InitRace ==
  /\ minimumLogLevel = LevelNotice
  /\ IncludeRuntime = FALSE
  /\ IncludeStep = FALSE
  /\ Component = <<>>
  /\ LogRequestsSeparately = TRUE
  /\ HideRequestsFromMainLog = TRUE
  /\ build = "part_002"
  /\ GeoIPDB = "nil"
  /\ legacy = LegacyPackage(LevelWarning)
  /\ InitState
  /\ dirOnDisk

\* LogRequest, called from any goroutine of the host at any time
NextRace ==
  \/ \E t \in Tasks, req \in RaceRequests : CallLogRequest(t, req)
  \/ RequestSteps

SpecRace == InitRace /\ [][NextRace]_vars


\* LogRequestFromFiber of src/unnamed/part_002, with and without a geo
\* database, called from one goroutine of the host
InitFiber ==
  /\ minimumLogLevel \in {LevelInfo, LevelNotice}
  /\ IncludeRuntime = FALSE
  /\ IncludeStep = FALSE
  /\ Component = <<>>
  /\ LogRequestsSeparately \in BOOLEAN
  /\ HideRequestsFromMainLog \in BOOLEAN
  /\ build = "part_002"
  /\ GeoIPDB \in {"nil", "db"}
  /\ legacy = LegacyPackage(LevelWarning)
  /\ InitState

NextFiber ==
  \/ \E c \in Contexts : CallLogRequestFromFiber(1, c)
  \/ \E t \in Tasks, res \in GeoResults : FiberGeo(t, res)
  \/ RequestSteps
  \/ LSteps

SpecFiber == InitFiber /\ [][NextFiber]_vars

\* the levels the host passes to LogAsync while other emissions run: one the
\* default threshold lets through and one it holds back
AsyncLevels == {LevelWarning, LevelDebug}

\* the wrappers the host calls in their Async form, likewise
AsyncWrappers == {"Error", "Debug"}

\* LogAsync, ErrorAsync, DebugAsync and FatalAsync: go l(level, content),
\* go Error(content), go Debug(content), go Fatal(content).  The go statement
\* starts goroutine t and the caller goes on at once
AsyncCalls(t) ==
  \/ \E level \in AsyncLevels, content \in Msgs : CallLog(t, level, content, TRUE)
  \/ \E op \in AsyncWrappers, content \in Msgs : CallWrapper(t, op, content, TRUE)
  \/ \E content \in Msgs : CallFatal(t, content, TRUE)

\* the one reading of a clock that stands still
Still == {<<1, 1>>}

\* the next step of goroutine t inside the package, the clock returning one
\* of the readings D where l takes the date and the timestamp, and one of
\* the readings R where microTime is called
TaskStepAt(t, D, R) ==
  \/ WrapperCheck(t)
  \/ LGate(t)
  \/ LDir(t)
  \/ LMkdir(t)
  \/ LMkdirStore(t)
  \/ \E r \in D : LOpen(t, r)
  \/ LChk(t)
  \/ \E r \in R : LInitNow(t, r)
  \/ LInitStart(t)
  \/ LInitLoad(t)
  \/ LInitLast(t)
  \/ \E r \in R : LRuntimeNow(t, r)
  \/ LRuntime(t)
  \/ \E r \in R : LStepNow(t, r)
  \/ LStep(t)
  \/ \E r \in R : LLastNow(t, r)
  \/ LLast(t)
  \/ LWrite(t)
  \/ LClose(t)
  \/ LEnd(t)
  \/ Crash(t)

\* the next step of goroutine t inside the package: every entry carries the
\* same timestamp, the timer sees the clock move
TaskStep(t) == TaskStepAt(t, Still, Instants)

\* the engine, called asynchronously by the host at any time
NextAsync ==
  \/ \E t \in Tasks : AsyncCalls(t)
  \/ \E t \in Tasks : TaskStep(t)

\* the Go scheduler runs every goroutine that can run: no goroutine of a
\* running process waits for ever on a step it can take
SpecAsync == Init /\ [][NextAsync]_vars /\ \A t \in Tasks : WF_vars(TaskStep(t))

\* the engine called asynchronously while the clock stands still: what a
\* goroutine gets done does not depend on the readings
NextFair ==
  \/ \E t \in Tasks : AsyncCalls(t)
  \/ \E t \in Tasks : TaskStepAt(t, Still, Still)

\* the same scheduler
SpecFair ==
  Init /\ [][NextFair]_vars /\ \A t \in Tasks : WF_vars(TaskStepAt(t, Still, Still))


\* values the host gives Component
Components == { <<>>, <<"c","m","s">> }

\* the engine with the runtime and the step shown or not, with or without
\* a component
InitTimer ==
  /\ minimumLogLevel = LevelNotice
  /\ IncludeRuntime \in BOOLEAN
  /\ IncludeStep \in BOOLEAN
  /\ Component \in Components
  /\ LogRequestsSeparately = FALSE
  /\ HideRequestsFromMainLog = FALSE
  /\ build = "part_002"
  /\ GeoIPDB = "nil"
  /\ legacy = LegacyPackage(LevelWarning)
  /\ InitState

\* Log, called from one goroutine of the host, one call after the other
NextTimer ==
  \/ \E level \in AsyncLevels, content \in Msgs : CallLog(1, level, content, FALSE)
  \/ LSteps

SpecTimer == InitTimer /\ [][NextTimer]_vars

\* the older logger.go after init(), LOGGER_MINIMUM_LOG_LEVEL being anything
InitLegacy ==
  /\ minimumLogLevel = LevelNotice
  /\ IncludeRuntime = FALSE
  /\ IncludeStep = FALSE
  /\ Component = <<>>
  /\ LogRequestsSeparately = FALSE
  /\ HideRequestsFromMainLog = FALSE
  /\ build = "part_002"
  /\ GeoIPDB = "nil"
  /\ legacy \in {p \in LegacyPackages : p.logger = "older"}
  /\ InitState

\* the steps of l of part_001
LegacySteps ==
  \/ \E t \in Tasks : LegacyGate(t)
  \/ \E t \in Tasks : LDir(t)
  \/ \E t \in Tasks : LMkdir(t)
  \/ \E t \in Tasks : LMkdirStore(t)
  \/ \E t \in Tasks, r \in Readings : LOpen(t, r)
  \/ \E t \in Tasks : LChk(t)
  \/ \E t \in Tasks, r \in Instants : LInitNow(t, r)
  \/ \E t \in Tasks : LInitStart(t)
  \/ \E t \in Tasks : LInitLoad(t)
  \/ \E t \in Tasks : LInitLast(t)
  \/ \E t \in Tasks, r \in Instants : LRuntimeNow(t, r)
  \/ \E t \in Tasks : LRuntime(t)
  \/ \E t \in Tasks, r \in Instants : LStepNow(t, r)
  \/ \E t \in Tasks : LStep(t)
  \/ \E t \in Tasks, r \in Instants : LLastNow(t, r)
  \/ \E t \in Tasks : LLast(t)
  \/ \E t \in Tasks : LWrite(t)
  \/ \E t \in Tasks : LClose(t)
  \/ \E t \in Tasks : LEnd(t)
  \/ \E t \in Tasks : Crash(t)
  \/ \E t \in Tasks : Recover(t)

\* the older logger.go called from one goroutine of the host, which calls
\* the Async forms of the wrappers as well
NextLegacy ==
  \/ \E level \in LegacySetInputs : LegacySetMinimumLogLevel(1, level)
  \/ \E op \in Wrappers, content \in Msgs : CallLegacyWrapper(1, op, content, FALSE)
  \/ \E level \in LegacyLogInputs, content \in Msgs :
       LegacyLog(1, level, content, FALSE)
  \/ \E content \in Msgs : LegacyFatal(1, content, FALSE)
  \/ \E op \in Wrappers, content \in Msgs : CallLegacyWrapper(2, op, content, TRUE)
  \/ \E t \in Tasks : LegacySetSteps(t)
  \/ \E t \in Tasks : LegacyWrapper(t)
  \/ LegacySteps

SpecLegacy == InitLegacy /\ [][NextLegacy]_vars

\* the oldest logger.go after init(): it reads no threshold, and the fields
\* of the older one are not looked at
InitOldest ==
  /\ minimumLogLevel = LevelNotice
  /\ IncludeRuntime = FALSE
  /\ IncludeStep = FALSE
  /\ Component = <<>>
  /\ LogRequestsSeparately = FALSE
  /\ HideRequestsFromMainLog = FALSE
  /\ build = "part_002"
  /\ GeoIPDB = "nil"
  /\ legacy \in {p \in LegacyPackages : p.logger = "oldest"}
  /\ InitState

\* the oldest logger.go called from one goroutine of the host
NextOldest ==
  \/ \E op \in Wrappers, content \in Msgs : CallLegacyWrapper(1, op, content, FALSE)
  \/ \E level \in LegacyLogInputs, content \in Msgs :
       LegacyLog(1, level, content, FALSE)
  \/ \E content \in Msgs : LegacyFatal(1, content, FALSE)
  \/ \E t \in Tasks : LegacyWrapper(t)
  \/ LegacySteps

SpecOldest == InitOldest /\ [][NextOldest]_vars

\* a logger.go of part_001 after init()
InitLegacyAsync ==
  /\ minimumLogLevel = LevelNotice
  /\ IncludeRuntime = FALSE
  /\ IncludeStep = FALSE
  /\ Component = <<>>
  /\ LogRequestsSeparately = FALSE
  /\ HideRequestsFromMainLog = FALSE
  /\ build = "part_002"
  /\ GeoIPDB = "nil"
  /\ legacy \in LegacyPackages
  /\ InitState

\* LogAsync, ErrorAsync, DebugAsync and FatalAsync of part_001: go l(level,
\* content) and, in the older logger.go, go Error(content), go
\* Debug(content), go Fatal(content); in the oldest, go l(LevelError,
\* content), go l(LevelDebug, content), go l(LevelFatal, content)
LegacyAsyncCalls(t) ==
  \/ \E content \in Msgs : LegacyLog(t, LevelWarning, content, TRUE)
  \/ \E op \in AsyncWrappers, content \in Msgs :
       CallLegacyWrapper(t, op, content, TRUE)
  \/ \E content \in Msgs : LegacyFatal(t, content, TRUE)

\* the next step of goroutine t inside a logger.go of part_001: every entry
\* carries the same timestamp, the timer sees the clock move
LegacyTaskStep(t) ==
  \/ LegacySetSteps(t)
  \/ LegacyWrapper(t)
  \/ LegacyGate(t)
  \/ TaskStepAt(t, Still, Instants)

\* a logger.go of part_001 called asynchronously by the host at any time,
\* which sets the threshold of the older one as well
NextLegacyAsync ==
  \/ \E t \in Tasks : LegacyAsyncCalls(t)
  \/ \E t \in Tasks : LegacySetMinimumLogLevel(t, LevelDebug)
  \/ \E t \in Tasks : LegacyTaskStep(t)

SpecLegacyAsync == InitLegacyAsync /\ [][NextLegacyAsync]_vars

\* a logger.go of part_001 with the requests logged to the main log, to the
\* separate file or to both
InitLegacyReq ==
  /\ minimumLogLevel = LevelNotice
  /\ IncludeRuntime = FALSE
  /\ IncludeStep = FALSE
  /\ Component = <<>>
  /\ LogRequestsSeparately \in BOOLEAN
  /\ HideRequestsFromMainLog \in BOOLEAN
  /\ build = "part_002"
  /\ GeoIPDB = "nil"
  /\ legacy \in LegacyPackages
  /\ InitState

\* LogRequest of part_001, called from one goroutine of the host
NextLegacyReq ==
  \/ \E userAgent \in SimpleAgents :
       CallLegacyLogRequest(1, <<"G","E","T">>, <<"/">>, userAgent, <<":",":","1">>)
  \/ \E t \in Tasks : SMain(t)
  \/ \E t \in Tasks, r \in Readings : SCsv(t, r)
  \/ \E t \in Tasks : SOpen(t)
  \/ \E t \in Tasks : SWrite(t)
  \/ LegacySteps

SpecLegacyReq == InitLegacyReq /\ [][NextLegacyReq]_vars

\* values of the environment variable LOGGER_MINIMUM_LOG_LEVEL; the empty
\* string stands for a variable that is unset as well
EnvLevels ==
  SetLevelInputs \cup { <<" ","d","e","b","u","g"," ">>, <<"\t","E","R","R","O","R">>,
                        <<"f","a","t","a","l","U+00A0","\n">>, <<" ">>,
                        <<"I","N"," ","F","O">> }

\* the threshold init() leaves for a value of the environment variable: the
\* value without the white space around it and in upper case when that is a
\* key of LevelWeights, else the NOTICE of the declaration
InitLevel(env) ==
  LET minimumLogLevelTemp == ToUpper(TrimSpace(env))
  IN  IF IsKey(minimumLogLevelTemp) THEN minimumLogLevelTemp ELSE LevelNotice

\* the package after init(), LOGGER_MINIMUM_LOG_LEVEL being anything
InitThreshold ==
  /\ minimumLogLevel \in {InitLevel(env) : env \in EnvLevels}
  /\ IncludeRuntime = FALSE
  /\ IncludeStep = FALSE
  /\ Component = <<>>
  /\ LogRequestsSeparately = FALSE
  /\ HideRequestsFromMainLog = FALSE
  /\ build = "part_002"
  /\ GeoIPDB = "nil"
  /\ legacy = LegacyPackage(LevelWarning)
  /\ InitState

\* the threshold set and emissions made, from one goroutine of the host
NextThreshold ==
  \/ \E x \in SetLevelInputs : SetMinimumLogLevel(1, x)
  \/ \E level \in AsyncLevels, content \in Msgs : CallLog(1, level, content, FALSE)
  \/ \E op \in AsyncWrappers, content \in Msgs : CallWrapper(1, op, content, FALSE)
  \/ \E t \in Tasks : WrapperCheck(t)
  \/ LSteps

SpecThreshold == InitThreshold /\ [][NextThreshold]_vars

(* ------------------------------ properties ---------------------------- *)

\* the operations that emit to the main log
EmitOps == Wrappers \cup {"Log", "Fatal", "LogRequest"}

\* the call of goroutine t is over: it returned, or it panicked
Over(t) == g[t].pc \in {"done", "panic", "recovered", "fatal_exit"}

\* the line of level and content an entry ends in
EntryTail(level, content) == <<" ">> \o level \o <<" ">> \o content \o <<"\n">>

\* the call of goroutine t wrote one entry of its level and content, dated
\* with the day it read, and the entry is in that day's main log
WroteEntry(t) ==
  /\ g[t].nlog = 1
  /\ g[t].day \in Days
  /\ StartsWith(g[t].entry, <<"[">> \o FormatDate(g[t].day) \o <<" ">>)
  /\ EndsWith(g[t].entry, EntryTail(g[t].level, g[t].content))
  /\ Contains(mainLog[g[t].day], g[t].entry)

\* C1: an emission, through Log or a wrapper, of a severity whose weight is
\* below that of the threshold in force never gets past the level check and
\* writes nothing to the main log.
C1_BelowThresholdSilent ==
  \A t \in Tasks :
    (/\ g[t].op \in EmitOps
     /\ g[t].level \in Levels
     /\ LevelWeights(g[t].level) < g[t].thr)
    => /\ g[t].nlog = 0
       /\ g[t].pc \in {"w_check", "l_gate", "done", "r_csv", "r_create",
                       "r_hdr", "r_hclose", "r_open", "r_write", "exit",
                       "io_exit"}
       /\ (ncalls = 1 => \A d \in Days : mainLog[d] = <<>>)

\* C1 happens: the threshold was set to FATAL, then Log(ERROR, ..) returned
\* and the main log is still empty
C1_Witness ==
  /\ g[1].op = "Log" /\ g[1].pc = "done"
  /\ g[1].level = LevelError
  /\ minimumLogLevel = LevelFatal /\ g[1].thr = LevelWeights(LevelFatal)
  /\ \A d \in Days : mainLog[d] = <<>>

\* C2: when a synchronous Log(L, msg) with L recognized and not below the
\* threshold is over, it has written exactly one entry, which ends in
\* " L msg", carries the date of the day it read and is in that day's file.
C2_LogAppendsOneEntry ==
  \A t \in Tasks :
    (/\ g[t].op = "Log" /\ ~g[t].async
     /\ g[t].level \in Levels
     /\ LevelWeights(g[t].level) >= g[t].thr
     /\ Over(t))
    => WroteEntry(t)

\* C2 happens: threshold DEBUG, Log(INFO, "hello") has returned
C2_Witness ==
  /\ g[1].op = "Log" /\ g[1].pc = "done"
  /\ g[1].level = LevelInfo /\ g[1].thr = LevelWeights(LevelDebug)
  /\ \E d \in Days : EndsWith(mainLog[d], <<" ","I","N","F","O"," ","h","e","l","l","o","\n">>)

\* two strings are equal up to the case of their letters, as Unicode case
\* folding has it: U+017F folds with s and S, U+0131 with no other rune
EqualFold(a, b) ==
  /\ Len(a) = Len(b)
  /\ \A i \in 1..Len(a) :
       \/ a[i] = b[i]
       \/ \E k \in 1..26 : {a[i], b[i]} = {LowerLetters[k], UpperLetters[k]}
       \/ {a[i], b[i]} \subseteq {"s", "S", LongS}

\* C3 as stated: after SetMinimumLogLevel(x) the threshold is a recognized
\* severity: the one x names when letter case is ignored, NOTICE when x
\* names none; the weight the level check compares with is that severity's.
C3_ThresholdRecognized ==
  \A t \in Tasks :
    (g[t].op = "SetMinimumLogLevel" /\ g[t].pc = "done")
    => /\ minimumLogLevel \in Levels
       /\ levelWeight = LevelWeights(minimumLogLevel)
       /\ IF \E L \in Levels : EqualFold(g[t].level, L)
          THEN EqualFold(g[t].level, minimumLogLevel)
          ELSE minimumLogLevel = LevelNotice

\* L is x with every rune in upper case
UpperCaseOf(x, L) ==
  /\ Len(x) = Len(L)
  /\ \A i \in 1..Len(x) : UpperChar(x[i]) = L[i]

\* C3: after SetMinimumLogLevel(x) the threshold is a recognized severity:
\* the upper-case form of x when that is a severity (so U+0131 counts as an
\* I), NOTICE when it is not; the weight the level check compares with is
\* that severity's.
C3_ThresholdUpperCased ==
  \A t \in Tasks :
    (g[t].op = "SetMinimumLogLevel" /\ g[t].pc = "done")
    => /\ minimumLogLevel \in Levels
       /\ levelWeight = LevelWeights(minimumLogLevel)
       /\ IF \E L \in Levels : UpperCaseOf(g[t].level, L)
          THEN UpperCaseOf(g[t].level, minimumLogLevel)
          ELSE minimumLogLevel = LevelNotice

\* C3 happens: SetMinimumLogLevel was called with U+0131 "nfo", whose upper
\* case is INFO, and the threshold is INFO now
C3_Witness ==
  /\ g[1].op = "SetMinimumLogLevel" /\ g[1].pc = "done"
  /\ g[1].level = <<DotlessI, "n", "f", "o">>
  /\ minimumLogLevel = LevelInfo

\* C4: Log with a level that is no key of LevelWeights is rejected, for
\* whatever threshold: the call writes no entry and no row, and a first such
\* call leaves every file as it was.  given is the level Log was called
\* with, which the l of part_001 replaces in its own parameter.
C4_UnknownLevelRejected ==
  \A t \in Tasks :
    (g[t].op = "Log" /\ g[t].given \notin Levels)
    => /\ g[t].nlog = 0 /\ g[t].ncsv = 0
       /\ (ncalls = 1 => /\ \A d \in Days : mainLog[d] = <<>> /\ csv[d] = <<>>
                         /\ \A d \in Days : ~csvExists[d])

\* C5: whenever l panics, the level is FATAL, and the FATAL entry has been
\* written to the day's file and the handle of that file has been closed.
C5_FatalEntryBeforePanic ==
  \A t \in Tasks :
    g[t].pc = "panic"
    => /\ g[t].level = LevelFatal
       /\ WroteEntry(t)
       /\ ~g[t].fOpen

\* C5 happens: Log(FATAL, ..) has panicked, the entry is the last of the file
C5_Witness ==
  /\ g[1].op = "Log" /\ g[1].pc = "panic"
  /\ g[1].level = LevelFatal
  /\ EndsWith(mainLog[g[1].day], g[1].entry)
  /\ nOpen = 0

\* C6: for every threshold, FATAL included, Fatal(msg) is never held back by
\* the level check: once it is past the check or over, it is on its way to
\* write, or has written, one FATAL entry.
C6_FatalAlwaysWritten ==
  \A t \in Tasks :
    g[t].op = "Fatal"
    => /\ g[t].level = LevelFatal
       /\ g[t].pc # "done" /\ g[t].pc # "fatal_exit"
       /\ (Over(t) => WroteEntry(t))

\* C6 happens: the threshold is FATAL and Fatal(msg) has written its entry
C6_Witness ==
  /\ g[1].op = "Fatal" /\ g[1].pc = "panic"
  /\ g[1].thr = LevelWeights(LevelFatal) /\ minimumLogLevel = LevelFatal
  /\ g[1].nlog = 1
  /\ \E d \in Days : EndsWith(mainLog[d], <<" ","F","A","T","A","L"," ","h","e","l","l","o","\n">>)

\* C7, as the README states it: Fatal(msg) logs and does not end the
\* application; a Fatal that has written its entry goes on to return to its
\* caller, with the process running, unless the closing of the file fails.
C7_FatalReturns ==
  \A t \in Tasks :
    (g[t].op = "Fatal" /\ g[t].nlog = 1 /\ g[t].pc # "io_exit")
    => /\ g[t].pc \in {"l_close", "l_end", "done"}
       /\ proc = "running"

\* the request is kept out of the main log by the two flags
Hidden == LogRequestsSeparately /\ HideRequestsFromMainLog

\* C8, as stated: whenever the flags do not hide it, a LogRequest that has
\* returned has put its summary into the main log.
C8_SummaryUnlessHidden ==
  \A t \in Tasks :
    (g[t].op = "LogRequest" /\ g[t].pc = "done" /\ ~Hidden)
    => /\ g[t].nlog = 1
       /\ Contains(mainLog[g[t].day], g[t].entry)

\* C8, amended: a LogRequest that has returned has put the summary
\* "(METHOD) PATH <- USER_AGENT @ IP" of the request it was given into the
\* main log, as one INFO entry, exactly when the flags do not hide it and
\* the threshold is DEBUG or INFO; otherwise it has written no entry.
C8_SummaryUnlessHiddenOrGated ==
  \A t \in Tasks :
    (g[t].op = "LogRequest" /\ g[t].pc = "done")
    => IF ~Hidden /\ g[t].thr <= LevelWeights(LevelInfo)
       THEN /\ g[t].nlog = 1
            /\ EndsWith(g[t].entry,
                        EntryTail(LevelInfo, RequestSummary(g[t].arg)))
            /\ \E d \in Days : Contains(mainLog[d], g[t].entry)
       ELSE g[t].nlog = 0

\* C8 happens: hidden from the main log but not logged separately, threshold
\* INFO: the summary of the request is the last line of the main log
C8_Witness ==
  /\ g[1].op = "LogRequest" /\ g[1].pc = "done"
  /\ HideRequestsFromMainLog /\ ~LogRequestsSeparately
  /\ minimumLogLevel = LevelInfo
  /\ \E d \in Days :
       EndsWith(mainLog[d], <<" ","I","N","F","O"," ","(","G","E","T",")"," ",
                              "/"," ","<","-"," ","u","a"," ","@"," ",":",":",
                              "1","\n">>)

\* C9: a LogRequest that has returned has appended exactly one row to the
\* day's requests file if LogRequestsSeparately is set, the row of the
\* request with the commas of its user agent replaced, and has written
\* nothing to a requests file if it is not set; whatever
\* HideRequestsFromMainLog and the threshold are.
C9_OneRowIffSeparately ==
  \A t \in Tasks :
    (g[t].op = "LogRequest" /\ g[t].pc = "done")
    => IF LogRequestsSeparately
       THEN /\ g[t].ncsv = 1
            /\ g[t].day \in Days
            /\ g[t].row # <<>>
            /\ EndsWith(csv[g[t].day], g[t].row)
       ELSE /\ g[t].ncsv = 0
            /\ \A d \in Days : csv[d] = <<>> /\ ~csvExists[d]

\* C9 happens: hidden from the main log, threshold FATAL, logged
\* separately: the row is there, the main log is empty
C9_Witness ==
  /\ g[1].op = "LogRequest" /\ g[1].pc = "done"
  /\ LogRequestsSeparately /\ HideRequestsFromMainLog
  /\ minimumLogLevel = LevelFatal
  /\ g[1].ncsv = 1
  /\ \E d \in Days : csv[d] # <<>> /\ mainLog[d] = <<>>

\* no goroutine is inside LogRequest
Quiet == \A t \in Tasks : g[t].pc \in {"idle", "done"}

\* C10: when the concurrent calls of LogRequest have all returned, every
\* requests file of src/unnamed/part_002 starts with the header line and
\* holds it nowhere else.
C10_HeaderOnce ==
  (Quiet /\ proc = "running")
  => \A d \in Days :
       csvExists[d] => /\ StartsWith(csv[d], HeaderLine)
                       /\ Occurrences(csv[d], HeaderLine) = {0}

\* C10 happens: two callers found the day's file missing, both created it
\* and wrote the header, and both have returned
C10_Witness ==
  /\ \A t \in Tasks : g[t].op = "LogRequest" /\ g[t].pc = "done"
  /\ \A t \in Tasks : g[t].nhdr = 1 /\ g[t].day = g[1].day
  /\ Occurrences(csv[g[1].day], HeaderLine) = {0}

\* GetCSVHeader() of the build that is linked
GetCSVHeader == IF build = "part_002" THEN GetCSVHeaderGeo ELSE GetCSVHeaderPlain

\* the header row of a requests file: the column names joined by commas
HeaderRow == Join(GetCSVHeader, <<",">>) \o <<"\n">>

\* C11, as stated: in every reachable state a requests file that is not
\* empty starts with the header row.
C11_HeaderFirst ==
  \A d \in Days : csv[d] # <<>> => StartsWith(csv[d], HeaderRow)

\* how often character c occurs in s
CountChar(s, c) == Cardinality({i \in 1..Len(s) : s[i] = c})

\* s with its commas turned into semicolons
Semicolons(s) == [i \in 1..Len(s) |-> IF s[i] = "," THEN ";" ELSE s[i]]

\* C12, as stated: the row LogRequest wrote for a request whose user agent
\* holds commas carries the user agent with semicolons in their place, and
\* has as many comma-separated columns as the header.
C12_RowKeepsColumnCount ==
  \A t \in Tasks :
    (/\ g[t].op = "LogRequest" /\ g[t].ncsv = 1
     /\ CountChar(g[t].arg.UserAgent, ",") > 0)
    => /\ Contains(g[t].row,
                   <<",">> \o Semicolons(g[t].arg.UserAgent) \o <<",">>)
       /\ CountChar(g[t].row, ",") + 1 = Len(GetCSVHeader)

RECURSIVE Split(_)
\* the comma-separated fields of s
Split(s) ==
  IF CountChar(s, ",") = 0 THEN <<s>>
  ELSE LET k == CHOOSE i \in 1..Len(s) :
                  s[i] = "," /\ \A j \in 1..(i - 1) : s[j] # ","
       IN  <<SubSeq(s, 1, k - 1)>> \o Split(SubSeq(s, k + 1, Len(s)))

\* the value a row shows for the field of r that carries the name (the json
\* tag of the Request struct) col
Column(r, col) ==
  CASE col = GetCSVHeaderGeo[1]  -> r.ConnectionTime
    [] col = GetCSVHeaderGeo[2]  -> r.Method
    [] col = GetCSVHeaderGeo[3]  -> r.Path
    [] col = GetCSVHeaderGeo[4]  -> r.IP
    [] col = GetCSVHeaderGeo[5]  -> r.Address
    [] col = GetCSVHeaderGeo[6]  -> r.UserAgent
    [] col = GetCSVHeaderGeo[7]  -> r.Referer
    [] col = GetCSVHeaderGeo[8]  -> r.RequestedHost
    [] col = GetCSVHeaderGeo[9]  -> r.Continent
    [] col = GetCSVHeaderGeo[10] -> r.Country
    [] col = GetCSVHeaderGeo[11] -> r.CountryCode
    [] col = GetCSVHeaderGeo[12] -> r.City
    [] col = GetCSVHeaderGeo[13] -> FormatFloat12(r.Latitude)
    [] col = GetCSVHeaderGeo[14] -> FormatFloat12(r.Longitude)
    [] col = GetCSVHeaderGeo[15] -> r.Timezone
    [] col = GetCSVHeaderGeo[16] -> r.PostalCode
    [] col = GetCSVHeaderGeo[17] -> r.Subdivision
    [] col = GetCSVHeaderGeo[18] -> r.SubdivisionCode
    [] col = GetCSVHeaderGeo[19] -> Digits(r.ConnectionID)
    [] col = GetCSVHeaderGeo[20] -> Digits(r.ConnectionSeq)

\* the order of the columns the format fixes, the geo columns left out
FixedOrder ==
  SubSeq(GetCSVHeaderGeo, 1, 8) \o SubSeq(GetCSVHeaderGeo, 19, 20)

\* the row without its line end
Line(row) == SubSeq(row, 1, Len(row) - 1)

\* C13, as stated: GetCSVHeader names the columns in the fixed order, and
\* the i-th field of a row ToCSV produced is the value of the request's
\* field that the i-th column names.
C13_RowMatchesHeader ==
  \A t \in Tasks :
    (/\ g[t].op = "LogRequest" /\ g[t].ncsv = 1
     /\ CountChar(g[t].row, ",") + 1 = Len(GetCSVHeader))
    => /\ SubSeq(GetCSVHeader, 1, 8) = SubSeq(FixedOrder, 1, 8)
       /\ SubSeq(GetCSVHeader, Len(GetCSVHeader) - 1, Len(GetCSVHeader))
            = SubSeq(FixedOrder, 9, 10)
       /\ \A i \in 1..Len(GetCSVHeader) :
            Split(Line(g[t].row))[i] = Column(g[t].req, GetCSVHeader[i])

\* C14, as stated: a geo lookup that fails, for an address that does not
\* parse or for any other reason, does not end the process: the call goes
\* on to LogRequest.
C14_LookupErrorTolerated ==
  \A t \in Tasks :
    g[t].lookup = "error" => proc = "running" /\ g[t].pc # "exit"

\* the geo fields of a request are as New() left them
NoGeo(r) ==
  /\ r.Continent = <<>> /\ r.Country = <<>> /\ r.CountryCode = <<>>
  /\ r.City = <<>> /\ r.Latitude = 0 /\ r.Longitude = 0
  /\ r.Timezone = <<>> /\ r.PostalCode = <<>>
  /\ r.Subdivision = <<>> /\ r.SubdivisionCode = <<>>

\* C15, as stated: with GeoIPDB nil, LogRequestFromFiber makes no lookup and
\* ends the process for no other reason than a file operation that failed;
\* the geo fields of its request stay empty, and when it has returned the
\* request is logged: its summary is in the main log or its row in the
\* requests file.
C15_NoDatabaseLogged ==
  \A t \in Tasks :
    (g[t].fiber /\ GeoIPDB = "nil")
    => /\ g[t].lookup \in {"none", "skipped"}
       /\ NoGeo(g[t].req)
       /\ (g[t].pc = "exit" => ~dirOnDisk)
       /\ (g[t].pc = "done" => (g[t].nlog = 1 \/ g[t].ncsv = 1))

\* C15, as the code has it: with GeoIPDB nil, LogRequestFromFiber makes no
\* lookup and ends the process for no other reason than a file operation
\* that failed; the geo fields of its request stay empty, and when it has
\* returned the request is logged as LogRequest logs any request: the row,
\* with its ten geo columns empty or zero, exactly when requests are logged
\* separately, the summary exactly when the flags do not hide it and the
\* threshold is DEBUG or INFO; under a higher threshold and without the
\* separate file nothing is logged.
C15_NoDatabaseNoGeo ==
  \A t \in Tasks :
    (g[t].fiber /\ GeoIPDB = "nil")
    => /\ g[t].lookup \in {"none", "skipped"}
       /\ NoGeo(g[t].req)
       /\ (g[t].pc = "exit" => ~dirOnDisk)
       /\ (g[t].pc = "done" =>
             /\ g[t].ncsv = (IF LogRequestsSeparately THEN 1 ELSE 0)
             /\ g[t].nlog = (IF ~Hidden /\ g[t].thr <= LevelWeights(LevelInfo)
                             THEN 1 ELSE 0)
             /\ (LogRequestsSeparately =>
                   /\ EndsWith(csv[g[t].day], g[t].row)
                   /\ SubSeq(Split(Line(g[t].row)), 9, 18)
                        = << <<>>, <<>>, <<>>, <<>>, FormatFloat12(0),
                             FormatFloat12(0), <<>>, <<>>, <<>>, <<>> >>))

\* C15 happens: no database, a request from ::1 has been logged to the main
\* log and to the requests file
C15_Witness ==
  /\ GeoIPDB = "nil"
  /\ g[1].fiber /\ g[1].pc = "done" /\ g[1].lookup = "skipped"
  /\ g[1].nlog = 1 /\ g[1].ncsv = 1
  /\ LET f == Split(Line(g[1].row))
     IN  /\ Len(f) = 20
         /\ f[4] = <<":",":","1">>
         /\ f[9] = <<>> /\ f[12] = <<>> /\ f[18] = <<>>
         /\ f[13] = <<"0",".","0","0","0","0","0","0","0","0","0","0","0","0">>
         /\ f[14] = <<"0",".","0","0","0","0","0","0","0","0","0","0","0","0">>

\* goroutine t was started by an Async call, is inside the package and has
\* not yet passed the level check, which its level will pass
Spawned(t) ==
  /\ g[t].async
  /\ g[t].op \in EmitOps
  /\ g[t].pc \in {"w_check", "l_gate"}
  /\ g[t].level \in Levels
  /\ LevelWeights(g[t].level) >= g[t].thr

\* the step is an Async call that starts goroutine t
AsyncCallStep(t) ==
  /\ g[t].pc \in {"idle", "done", "recovered"}
  /\ g'[t].pc \notin {"idle", "done", "recovered"}
  /\ g'[t].async

\* C16: an Async call returns without waiting for the write, which is to
\* say that the call is over with no file changed and the goroutine it
\* started still before its level check; no call writes more than one
\* entry; and with every goroutine scheduled fairly each asynchronous
\* emission of an allowed level ends having appended exactly one entry to
\* the main log.
C16_AsyncEventuallyWrites ==
  /\ [][\A t \in Tasks :
          AsyncCallStep(t) => /\ UNCHANGED files
                              /\ g'[t].nlog = 0
                              /\ g'[t].pc \in {"w_check", "l_gate"}]_vars
  /\ [](\A t \in Tasks : g[t].nlog <= 1)
  /\ \A t \in Tasks : Spawned(t) ~> (Over(t) /\ WroteEntry(t))

\* goroutine t is inside the open-write-close section of l, on the file of
\* day d
InSection(t, d) == g[t].fOpen /\ g[t].day = d

\* C17: concurrent writers to the file of one day are serialized; in no
\* reachable state are two emissions inside the open-write-close section of
\* the same file at the same time.
C17_WritersSerialized ==
  \A t, u \in Tasks, d \in Days :
    (InSection(t, d) /\ InSection(u, d)) => t = u

\* C18: ensuring the directory is idempotent under concurrent emissions that
\* start with the directory absent; no emission ends in log.Fatal while the
\* directory is there, created by another emission.
C18_EnsureDirectoryIdempotent ==
  \A t \in Tasks :
    (g[t].op \in EmitOps /\ g[t].pc = "exit") => ~dirOnDisk

\* where a call is once runtime, and once step, has been computed
AfterRuntime ==
  {"l_step", "l_step_sub", "l_last", "l_last_st", "l_write", "l_close",
   "l_end"}

AfterStep == AfterRuntime \ {"l_step", "l_step_sub"}

\* an entry shows the duration d as zero
ReportsZero(d) == formatMicroTimeDuration(d) = formatMicroTimeDuration(Zero)

\* C19: the emission that finds start unset sets start and lastStep to the
\* same reading, computes a runtime and a step that print as zero whatever
\* the clock does between its reads, and writes an entry that shows them as
\* zero.
C19_FirstEmissionZero ==
  \A t \in Tasks :
    g[t].first
    => /\ (g[t].pc = "l_rt" => start = lastStep)
       /\ (g[t].pc \in AfterRuntime => ReportsZero(g[t].runtime))
       /\ (g[t].pc \in AfterStep => ReportsZero(g[t].step))
       /\ (g[t].nlog = 1
           => g[t].entry = ComposeEntry([g[t] EXCEPT !.runtime = Zero, !.step = Zero]))

\* C20: of two consecutive emissions on a fresh engine the first computes a
\* step that prints as zero; the second computes a step that is strictly
\* positive and prints as such, and that is the time from the reading the
\* first left in lastStep to the reading the second takes.
C20_SecondStepPositive ==
  \A t \in Tasks :
    (g[t].op \in EmitOps /\ g[t].pc \in AfterStep /\ (g[t].fOpen \/ g[t].nlog = 1))
    => /\ (g[t].first => ReportsZero(g[t].step))
       /\ (~g[t].first => (LessThan(Zero, g[t].step) /\ ~ReportsZero(g[t].step)))
       /\ ((~g[t].first /\ g[t].pc = "l_last") => g[t].step = Minus(g[t].mt, lastStep))

\* a part of an entry in its brackets
Bracket(s) == <<"[">> \o s \o <<"]">>

\* the optional parts an entry of goroutine t has, in the order of the
\* format: runtime, step, component
OptionalParts(t) ==
  (IF IncludeRuntime THEN <<formatMicroTimeDuration(g[t].runtime)>> ELSE <<>>)
    \o (IF IncludeStep THEN <<formatMicroTimeDuration(g[t].step)>> ELSE <<>>)
    \o (IF Component # <<>> THEN <<Component>> ELSE <<>>)

\* C21: every entry written is "[timestamp]", then "[runtime]" iff
\* IncludeRuntime, then "[step]" iff IncludeStep, then "[component]" iff
\* Component is not empty, then " LEVEL message" and a newline, and it is
\* that line the day's file ends in when it is written.  (The runtime and
\* the step are locals of l, so the entry is looked at before l returns.)
C21_EntryFormat ==
  \A t \in Tasks :
    (g[t].nlog = 1 /\ g[t].pc \in {"l_close", "l_end"})
    => LET parts == OptionalParts(t)
           opt   == [i \in 1..Len(parts) |-> Bracket(parts[i])]
       IN  /\ g[t].entry = Bracket(g[t].tFormatted) \o Join(opt, <<>>)
                             \o EntryTail(g[t].level, g[t].content)
           /\ CountChar(g[t].entry, "[") = 1 + Len(parts)
           /\ (g[t].pc = "l_close" => EndsWith(mainLog[g[t].day], g[t].entry))

\* C21 happens: with runtime, step and component all shown, a second
\* emission has written an entry whose runtime, 2 us, and step, none, differ
C21_Witness ==
  /\ IncludeRuntime /\ IncludeStep /\ Component = <<"c","m","s">>
  /\ g[1].op = "Log" /\ g[1].pc = "l_end" /\ g[1].nlog = 1 /\ ~g[1].first
  /\ g[1].runtime = Minus(microTime(<<3, 1>>), microTime(<<1, 1>>)) /\ g[1].step = Zero
  /\ Contains(g[1].entry,
       <<"]","[","0","0",":","0","0",":","0","0",":","0","0",".",
         "0","0","0","0","0","2","]","[">>
         \o formatMicroTimeDuration(Zero) \o <<"]","[","c","m","s","]"," ","W">>)

\* no goroutine is inside the package: every operation called has returned
AllReturned == \A t \in Tasks : g[t].pc \in {"idle", "done", "recovered"}

\* C22: no file handle outlives the operation that opened it; whenever every
\* operation called has returned, no handle on a main log file or on a
\* requests file is open.
C22_NoHandleOutlives == AllReturned => nOpen = 0

\* C23: over every interleaving of emissions start is assigned at most once,
\* it never changes once it is set, and lastStep never decreases.
C23_StartOnceLastStepMonotone ==
  [][/\ (start # Zero => start' = start)
     /\ ~LessThan(lastStep', lastStep)]_vars

\* the weight of a severity of the older logger.go, by its rank
LegacyWeight(level) ==
  CASE level = LevelDebug   -> 0
    [] level = LevelInfo    -> 1
    [] level = LevelWarning -> 2
    [] level = LevelError   -> 3
    [] level = LevelFatal   -> 4

\* goroutine t is inside SetMinimumLogLevel of the older logger.go
Deriving(t) == g[t].pc \in {"ls_debug", "ls_info", "ls_warning", "ls_error"}

\* C24: in the logger.go with a boolean per severity, in every state after
\* a call and outside SetMinimumLogLevel, each of debug, info, warning,
\* error equals (weight of its severity >= weight of MinimumLogLevel), and
\* a wrapper that has returned has written an entry iff its severity is at
\* or above MinimumLogLevel.
C24_FlagsFollowThreshold ==
  \A t \in Tasks :
    g[t].op # "none"
    => /\ (\E u \in Tasks : Deriving(u))
          \/ \A op \in Wrappers :
               LegacyFlag(legacy, op)
                 = (LegacyWeight(WrapperLevel(op)) >= LegacyWeight(legacy.MinimumLogLevel))
       /\ ((g[t].op \in Wrappers /\ g[t].pc = "done")
           => (g[t].nlog = 1)
                = (LegacyWeight(WrapperLevel(g[t].op))
                     >= LegacyWeight(legacy.MinimumLogLevel)))

\* C25: the directory is checked once and the result is cached; once an
\* emission that passed the level check is over, logDirExists is true, so
\* that no later emission calls os.Stat, whether l created the directory or
\* found it.
C25_DirectoryCheckCached ==
  \A t \in Tasks :
    (g[t].op \in EmitOps /\ g[t].nlog = 1 /\ Over(t)) => logDirExists

\* C26: in every state after init() and any sequence of SetMinimumLogLevel
\* calls, minimumLogLevel is a key of LevelWeights and levelWeight is its
\* weight, and that weight is the one every emission is checked against.
C26_ThresholdConsistent ==
  /\ minimumLogLevel \in Levels
  /\ levelWeight = LevelWeights(minimumLogLevel)
  /\ \A t \in Tasks :
       g[t].pc \in {"w_check", "l_gate"} => g[t].thr = LevelWeights(minimumLogLevel)

\* C26 happens: the threshold was FATAL when SetMinimumLogLevel("warn"), the
\* second call, was made; it is NOTICE with the weight of NOTICE now
C26_Witness ==
  /\ ncalls = 2
  /\ g[1].op = "SetMinimumLogLevel" /\ g[1].pc = "done"
  /\ g[1].level = <<"w","a","r","n">>
  /\ g[1].thr = LevelWeights(LevelFatal)
  /\ minimumLogLevel = LevelNotice /\ levelWeight = 2

\* the non-terminal severities that have a wrapper
WrapperLevels == {WrapperLevel(op) : op \in Wrappers}

\* what a call with severity S, made under the threshold thr, has done to
\* the log file and to start and lastStep once it is over: with S at or
\* above the threshold it wrote its one entry and the timer is running,
\* else it wrote nothing, and as the first call it left the files empty and
\* the timer unset
EffectOfEmission(t) ==
  IF LevelWeights(g[t].level) >= g[t].thr
  THEN /\ WroteEntry(t)
       /\ start # Zero /\ lastStep # Zero
  ELSE /\ g[t].nlog = 0
       /\ (ncalls = 1 => /\ \A d \in Days : mainLog[d] = <<>>
                         /\ start = Zero /\ lastStep = Zero)

\* C27: for each of DEBUG, INFO, WARNING, ERROR and every threshold, the
\* wrapper and Log with that severity have the same effect on the log file
\* and on start and lastStep; a wrapper's pre-check lets through exactly
\* what the level check of l lets through.
C27_WrapperAsLog ==
  \A t \in Tasks :
    /\ (g[t].op \in Wrappers /\ g[t].pc = "l_gate")
       => (g[t].level \in Levels /\ Allowed(g[t].level))
    /\ (g[t].op \in Wrappers /\ g[t].pc = "w_check")
       => (WrapperEnabled(g[t].op) = Allowed(g[t].level))
    /\ ((g[t].op \in Wrappers \/ (g[t].op = "Log" /\ g[t].level \in WrapperLevels))
        /\ g[t].pc = "done")
       => EffectOfEmission(t)

\* C27 happens: the threshold was set to WARNING, then Warning("hello")
\* wrote its entry
C27_Witness ==
  /\ ncalls = 2 /\ minimumLogLevel = LevelWarning
  /\ g[1].op = "Warning" /\ g[1].pc = "done"
  /\ g[1].thr = LevelWeights(LevelWarning)
  /\ WroteEntry(1) /\ start # Zero

\* the emission goroutine t makes is one l rejects: its level is no key of
\* LevelWeights, or is below the threshold in force
Rejected(t) ==
  /\ g[t].op \in Wrappers \cup {"Log"}
  /\ (g[t].level \notin Levels \/ LevelWeights(g[t].level) < g[t].thr)

\* C28: a rejected emission gets no further than the checks and writes
\* nothing, and no step of it changes start, lastStep or logDirExists or
\* creates, opens or writes a file or the directory.
C28_RejectedLeavesNoTrace ==
  /\ [](\A t \in Tasks :
          Rejected(t) => /\ g[t].pc \in {"w_check", "l_gate", "done"}
                         /\ g[t].nlog = 0 /\ ~g[t].fOpen /\ ~g[t].first)
  /\ [][\A t \in Tasks :
          (Rejected(t)' /\ g[t]' # g[t])
          => UNCHANGED <<start, lastStep, logDirExists, dirOnDisk, mainLog,
                         csvExists, csv, nOpen>>]_vars

\* C28 happens: after an emission that wrote its entry, Log("TRACE", ..) was
\* rejected and has returned; the timer and the file are as the first left
\* them
C28_Witness ==
  /\ ncalls = 2
  /\ g[1].op = "Log" /\ g[1].level = <<"T","R","A","C","E">>
  /\ g[1].pc = "done" /\ g[1].nlog = 0
  /\ start # Zero /\ lastStep # Zero
  /\ \E d \in Days : mainLog[d] # <<>>

\* the positions at which a line of file content s ends
LineEnds(s) == {i \in 1..Len(s) : s[i] = "\n"}

\* the line of s that ends at position i, its newline included
LineEndingAt(s, i) ==
  LET before == {j \in LineEnds(s) : j < i}
      from   == IF before = {} THEN 1
                ELSE (CHOOSE j \in before : \A k \in before : k <= j) + 1
  IN  SubSeq(s, from, i)

\* the number of complete lines of s that are not the header line
DataRows(s) ==
  Cardinality({i \in LineEnds(s) : LineEndingAt(s, i) # HeaderRow})

RECURSIVE RowsOfDays(_)
\* the data rows of the requests files of the days in D together
RowsOfDays(D) ==
  IF D = {} THEN 0
  ELSE LET d == CHOOSE x \in D : TRUE
       IN  DataRows(csv[d]) + RowsOfDays(D \ {d})

\* C29: with LogRequestsSeparately, no row is lost; when the N calls of
\* LogRequest made so far have all returned, the requests files hold exactly
\* N data rows.
C29_NoRowLost ==
  (LogRequestsSeparately /\ Running /\ AllReturned)
  => RowsOfDays(Days) = ncalls

\* C30: SetMinimumLogLevel(x) returns for every x; it calls itself at most
\* once, with NOTICE, and does so exactly when x in upper case is no key of
\* LevelWeights.
C30_SetLevelTerminates ==
  \A t \in Tasks :
    g[t].op = "SetMinimumLogLevel"
    => /\ g[t].pc = "done" /\ proc = "running"
       /\ g[t].depth <= 1
       /\ (g[t].depth = 1) = (ToUpper(g[t].level) \notin Levels)

\* C30 happens: SetMinimumLogLevel("") has returned from its one recursive
\* call, the threshold is NOTICE
C30_Witness ==
  /\ g[1].op = "SetMinimumLogLevel" /\ g[1].pc = "done"
  /\ g[1].level = <<>> /\ g[1].depth = 1
  /\ g[1].thr = LevelWeights(LevelDebug)
  /\ minimumLogLevel = LevelNotice

=============================================================================
